---- MODULE Spec2Model ----
(***************************************************************************)
(* GitSleuth backend: the retrieval-augmented query engine                 *)
(* (services/rag_service.py), the conversation store                       *)
(* (services/conversation_manager.py, models/schemas.py), the session      *)
(* bookkeeping of the HTTP layer (main.py) and the chunk boundary detector *)
(* (services/semantic_chunker.py).                                         *)
(*                                                                         *)
(* Text is a sequence of one-character strings, so that lower(), strip(),  *)
(* rsplit() and the substring test `a in b` are computed, not assumed.     *)
(* The specifications share the variables:                                 *)
(*   Spec          RAGService.add_to_index and RAGService.query            *)
(*   SpecQueryPair two RAGService.query calls in one conversation          *)
(*   SpecIndex     RAGService.create_index                                 *)
(*   SpecConv      ConversationManager                                     *)
(*   SpecIds       the chunk ids of an indexing run                        *)
(*   SpecThreads   ConversationManager under two threads                   *)
(*   SpecValid     URLValidator and TextValidator                          *)
(*   SpecApi       POST /index, GET /status, POST /query,                  *)
(*                 process_repository                                      *)
(*   SpecConvApi   POST /query and the conversation endpoints              *)
(*   SpecChunk     SemanticChunker                                         *)
(*   SpecContext   ConversationManager.get_conversation_context            *)
(*   SpecProc      POST /index and process_repository, with fairness       *)
(*   SpecWalk      the files process_repository lists and indexes          *)
(*   SpecGather    the tasks of the two gathers of process_repository      *)
(*   SpecLimiter   RateLimiter                                             *)
(***************************************************************************)
EXTENDS Integers, Sequences, FiniteSets, TLC

VARIABLES
    collections,        \* chroma_client: session id -> its collection
    index_runs,         \* create_index calls made so far, per session id
    index_ret,          \* what the last create_index call did and returned
    rag_conversations,  \* rag_service.conversation_manager.conversations
    next_conv,          \* conversation ids handed out so far (uuid4 is fresh)
    max_messages,       \* ConversationManager.max_messages
    q,                  \* the POST /query coroutine inside RAGService.query
    queries,            \* queries started so far
    conversations,      \* main.conversation_manager.conversations
    conv_ret,           \* last ConversationManager call and its return value
    conv_times,         \* created_at and updated_at of each conversation
    clock,              \* datetime.now(), as the number of readings so far
    conv_calls,         \* history: per id, its lifecycle and accepted appends
    sessions,           \* main.sessions: session id -> its record
    task,               \* the process_repository task of each session id
    api_ret,            \* the last HTTP response
    cache_enabled,      \* config CACHE_ENABLED
    chroma_dir_exists,  \* whether ./chroma_db exists in the working directory
    query_cache,        \* session ids whose query result is in cache_manager
    doc,                \* the file a SemanticChunker method is called with
    called,             \* the SemanticChunker method called last
    chunks,             \* the chunk list it returned
    block,              \* _find_block_end's start_line and return value
    th,                 \* threads calling one ConversationManager: their calls
    lock,               \* ConversationManager.lock: its holder, or "free"
    conv_orphans,       \* records deleted from the store that a thread may hold
    serial,             \* history: the calls so far applied one after another
    id_runs,            \* per session: the ids its indexing run has built
    validated,          \* the last validator call: its input and its outcome
    repo_run,           \* process_repository: the files it lists and indexes
    gather,             \* process_repository: the tasks of its two gathers
    limiter             \* RateLimiter: its windows, its bucket and its clock

ragVars == <<collections, index_runs, index_ret, rag_conversations, next_conv,
             max_messages, q, queries>>
convVars == <<conversations, conv_ret, conv_times, clock, conv_calls>>
apiVars == <<sessions, task, api_ret, cache_enabled, chroma_dir_exists,
             query_cache>>
chunkVars == <<doc, called, chunks, block>>
threadVars == <<th, lock, conv_orphans, serial>>
idVars == <<id_runs, validated, repo_run, gather, limiter>>
vars == <<ragVars, convVars, apiVars, chunkVars, threadVars, idVars>>

----------------------------------------------------------------------------
(* Bounds of the model *)

MaxRuns == 2            \* create_index runs per session id
MaxFullBatches == 1     \* full batches of batch_size chunks in one run
MaxRem == 2             \* chunks of the last, partial batch
MaxEntries == 2         \* add_to_index calls per collection
MaxDist == 2            \* distances are 1..MaxDist (ascending = nearer first)
MaxQueries == 1         \* queries started
MaxConvs == 1           \* conversation ids handed out
MaxConfigured == 2      \* largest max_messages a store is constructed with
MaxHeld == 3            \* messages a store holds, all conversations together
MaxClock == 4           \* readings of datetime.now() by a conversation store
MaxLimit == 2                 \* largest limit get_conversation_history is called with
MaxTokens == 4          \* largest max_tokens get_conversation_context is called with
MaxTasks == 11          \* files, and chunks, of one indexing run
MaxCalls == 22          \* calls of RateLimiter.is_allowed
MaxMinutes == 1         \* minutes that pass between the calls of the rate limiter
MaxThreadCalls == 3           \* calls the threads make between them
MaxFileChunks == 2            \* chunks chunk_document returns for one file
MaxFiles == 1           \* files get_files returns
MaxChunks == 1          \* chunks get_indexable_chunks returns
MaxLines == 3           \* lines of a brace-language file
MaxTextLines == 21      \* lines of a text file

(* Program constants *)

batch_size == 512
n_results == 5
DefaultMaxMessages == 1000

SessionIds == {"s1", "s2"}
IndexedIds == {"s1"}     \* the session ids indexing is run for
\* Conversation ids a caller may pass: 1.. are handed out by
\* create_conversation in turn, 0 is an id it never returned
ConvIds == 0..MaxConvs
RunTags == 0..MaxRuns   \* 0: written by add_to_index; r > 0: by the r-th create_index

----------------------------------------------------------------------------
(* Text *)

Lower(c) ==
    CASE c = "A" -> "a" [] c = "B" -> "b" [] c = "C" -> "c" [] c = "D" -> "d"
      [] c = "E" -> "e" [] c = "F" -> "f" [] c = "G" -> "g" [] c = "H" -> "h"
      [] c = "I" -> "i" [] c = "J" -> "j" [] c = "K" -> "k" [] c = "L" -> "l"
      [] c = "M" -> "m" [] c = "N" -> "n" [] c = "O" -> "o" [] c = "P" -> "p"
      [] c = "Q" -> "q" [] c = "R" -> "r" [] c = "S" -> "s" [] c = "T" -> "t"
      [] c = "U" -> "u" [] c = "V" -> "v" [] c = "W" -> "w" [] c = "X" -> "x"
      [] c = "Y" -> "y" [] c = "Z" -> "z"
      [] OTHER -> c

\* str.lower()
LowerStr(s) == [i \in 1..Len(s) |-> Lower(s[i])]

\* `a in b` for str
IsSubstring(a, b) ==
    \E i \in 0..(Len(b) - Len(a)) : SubSeq(b, i + 1, i + Len(a)) = a

IsSpace(c) == c \in {" ", "\n", "\t"}

\* str.strip()
Strip(s) ==
    LET keep == {i \in 1..Len(s) : ~IsSpace(s[i])}
    IN  IF keep = {} THEN <<>>
        ELSE LET lo == CHOOSE i \in keep : \A j \in keep : i <= j
                 hi == CHOOSE i \in keep : \A j \in keep : i >= j
             IN  SubSeq(s, lo, hi)

\* file_name.rsplit('.', 1)[0] if '.' in file_name else file_name
FileBase(file_name) ==
    LET dots == {i \in 1..Len(file_name) : file_name[i] = "."}
    IN  IF dots = {} THEN file_name
        ELSE LET last == CHOOSE i \in dots : \A j \in dots : i >= j
             IN  SubSeq(file_name, 1, last - 1)

----------------------------------------------------------------------------
(* The repository files whose chunks the store may hold (metadata written *)
(* by _process_file_to_documents / get_indexable_chunks)                  *)

Files == {
    [file_path |-> <<"a", ".", "p", "y">>,
     file_name |-> <<"a", ".", "p", "y">>],
    [file_path |-> <<"l", "i", "b", "/", "B", ".", "j", "s">>,
     file_name |-> <<"B", ".", "j", "s">>] }

Questions == {
    <<"b", ".", "j", "s", "?">>,
    <<"A", ".", "P", "Y">>,
    <<"x", "y", "z">> }

\* "x" * n
Pad(n) == [i \in 1..n |-> "x"]

\* What llm.ainvoke may return: 2, 36 and 51 characters once stripped
Answers == {
    <<"o", "k">>,
    <<"m", "a", "y", "b", "e", " ">> \o Pad(30) \o <<"\n">>,
    Pad(51) }

\* "\n".join(lines)
RECURSIVE Join(_)
Join(lines) ==
    IF Len(lines) = 0 THEN <<>>
    ELSE IF Len(lines) = 1 THEN lines[1]
    ELSE lines[1] \o <<"\n">> \o Join(Tail(lines))

ConfidenceTag(c) ==
    <<"\n", "\n", "[", "C", "O", "N", "F", "I", "D", "E", "N", "C", "E", ":", " ">>
    \o (CASE c = "high" -> <<"h", "i", "g", "h">>
          [] c = "medium" -> <<"m", "e", "d", "i", "u", "m">>
          [] OTHER -> <<"l", "o", "w">>)
    \o <<"]">>

----------------------------------------------------------------------------
(* models/schemas.py and services/conversation_manager.py *)

\* collections.deque(maxlen=n): append evicts the oldest item at the bound
Deque(maxlen) == [items |-> <<>>, maxlen |-> maxlen]

\* list(x): what validation of a field declared List[...] keeps of a deque
\* passed to it -- the items, as a plain list with no maxlen
ListOf(d) == d.items

\* ConversationHistory(session_id=..., messages=..., ...): the messages field
\* is declared List[ConversationMessage]
ConversationHistory(session_id, messages) ==
    [session_id |-> session_id, messages |-> ListOf(messages)]

\* ConversationMessage(role, content, timestamp, confidence)
ConversationMessage(role, content, confidence) ==
    [role |-> role, content |-> content, confidence |-> confidence]

ValidConfidence == {"high", "medium", "low"}

\* re.search(r"\[CONFIDENCE:\s*(high|medium|low)\]", text): the level of the
\* leftmost match, "none" without a match. The pattern is case-sensitive.
TagLevelAt(text, i) ==
    LET head == <<"[", "C", "O", "N", "F", "I", "D", "E", "N", "C", "E", ":">>
        n == Len(text)
        startsAt(w, k) == k + Len(w) - 1 <= n /\ SubSeq(text, k, k + Len(w) - 1) = w
        levels == {"high", "medium", "low"}
        word(l) == CASE l = "high" -> <<"h", "i", "g", "h">>
                     [] l = "medium" -> <<"m", "e", "d", "i", "u", "m">>
                     [] OTHER -> <<"l", "o", "w">>
        hit(l) == /\ startsAt(head, i)
                  /\ \E k \in (i + Len(head))..(n + 1) :
                        /\ \A j \in (i + Len(head))..(k - 1) : IsSpace(text[j])
                        /\ startsAt(word(l) \o <<"]">>, k)
    IN  IF \E l \in levels : hit(l) THEN CHOOSE l \in levels : hit(l) ELSE "none"

ConfidenceMarker(text) ==
    LET hits == {i \in 1..Len(text) : TagLevelAt(text, i) # "none"}
    IN  IF hits = {} THEN "none"
        ELSE TagLevelAt(text, CHOOSE i \in hits : \A j \in hits : i <= j)

HighKeywords == {
    <<"i", " ", "a", "m", " ", "c", "o", "n", "f", "i", "d", "e", "n", "t">>,
    <<"d", "e", "f", "i", "n", "i", "t", "e", "l", "y">>,
    <<"c", "e", "r", "t", "a", "i", "n", "l", "y">>,
    <<"w", "i", "t", "h", "o", "u", "t", " ", "d", "o", "u", "b", "t">> }

MediumKeywords == {
    <<"p", "r", "o", "b", "a", "b", "l", "y">>,
    <<"l", "i", "k", "e", "l", "y">>,
    <<"m", "a", "y">>,
    <<"m", "i", "g", "h", "t">> }

\* ConversationManager.estimate_confidence
estimate_confidence(answer) ==
    LET answer_lower == LowerStr(answer)
        marker == ConfidenceMarker(answer_lower)
    IN  IF marker # "none" THEN marker
        ELSE IF \E kw \in HighKeywords : IsSubstring(kw, answer_lower) THEN "high"
        ELSE IF \E kw \in MediumKeywords : IsSubstring(kw, answer_lower) THEN "medium"
        ELSE "low"

\* ConversationManager.create_conversation: the store after the call
create_conversation(store, conversation_id, session_id, maxlen) ==
    [c \in (DOMAIN store) \cup {conversation_id} |->
        IF c = conversation_id
        THEN ConversationHistory(session_id, Deque(maxlen))
        ELSE store[c]]

\* An insert at the front instead of an append
ListPrepend(messages, message) == <<message>> \o messages

\* list.append
ListAppend(messages, message) == Append(messages, message)

\* An add_message that opens a conversation for an id it does not know
add_message_creating(store, conversation_id, role, content, confidence) ==
    LET message == ConversationMessage(role, Strip(content), "None")
    IN  IF conversation_id \in DOMAIN store
        THEN [store EXCEPT ![conversation_id].messages = ListAppend(@, message)]
        ELSE [c \in (DOMAIN store) \cup {conversation_id} |->
                 IF c = conversation_id
                 THEN [session_id |-> "s1", messages |-> <<message>>]
                 ELSE store[c]]

\* ConversationManager.add_message: the store after the call
add_message(store, conversation_id, role, content, confidence) ==
    IF conversation_id \notin DOMAIN store THEN store
    ELSE LET conf == IF confidence \in ValidConfidence THEN confidence
                     ELSE IF role = "assistant" THEN estimate_confidence(content)
                     ELSE "None"
             message == ConversationMessage(role, Strip(content), conf)
         IN  [store EXCEPT ![conversation_id].messages = ListAppend(@, message)]

\* ConversationManager.add_message: its return value
add_message_ret(store, conversation_id) == conversation_id \in DOMAIN store

\* A clear that drops the record with its messages
clear_conversation_dropping(store, conversation_id) ==
    [c \in (DOMAIN store) \ {conversation_id} |-> store[c]]

\* ConversationManager.clear_conversation: the store after the call
clear_conversation(store, conversation_id) ==
    IF conversation_id \notin DOMAIN store THEN store
    ELSE [store EXCEPT ![conversation_id].messages = <<>>]

\* ConversationManager.delete_conversation: the store after the call
delete_conversation(store, conversation_id) ==
    [c \in (DOMAIN store) \ {conversation_id} |-> store[c]]

Min(a, b) == IF a <= b THEN a ELSE b
Max(a, b) == IF a >= b THEN a ELSE b

\* Python's seq[start:] for any integer start
SliceFrom(seq, start) ==
    LET n == Len(seq)
        from == IF start < 0 THEN Max(0, n + start) ELSE Min(start, n)
    IN  SubSeq(seq, from + 1, n)

\* ConversationManager.get_conversation_history: list(messages)[-limit:]
get_conversation_history(store, conversation_id, limit) ==
    IF conversation_id \notin DOMAIN store THEN <<>>
    ELSE SliceFrom(store[conversation_id].messages, 0 - limit)

\* f"{msg.role}: {msg.content}"
msg_text_of(msg) ==
    (IF msg.role = "user" THEN <<"u", "s", "e", "r">>
     ELSE <<"a", "s", "s", "i", "s", "t", "a", "n", "t">>)
    \o <<":", " ">> \o msg.content

\* len(text.split()): the length estimate used when no tokenizer is
\* installed
word_count(text) ==
    Cardinality({i \in 1..Len(text) :
                    /\ ~IsSpace(text[i])
                    /\ (i = 1 \/ IsSpace(text[i - 1]))})

\* A loop that passes over a message that does not fit and goes on
RECURSIVE context_parts_skipping(_, _, _, _, _)
context_parts_skipping(messages, i, context_parts, current_tokens, max_tokens) ==
    IF i = 0 THEN context_parts
    ELSE LET msg_text == msg_text_of(messages[i])
             msg_tokens == word_count(msg_text)
         IN  IF current_tokens + msg_tokens > max_tokens
             THEN context_parts_skipping(messages, i - 1, context_parts,
                                         current_tokens, max_tokens)
             ELSE context_parts_skipping(messages, i - 1,
                                         <<msg_text>> \o context_parts,
                                         current_tokens + msg_tokens,
                                         max_tokens)

\* The loop of get_conversation_context over reversed(messages), from
\* messages[i] down: it stops at the first message that does not fit
RECURSIVE context_parts_from(_, _, _, _, _)
context_parts_from(messages, i, context_parts, current_tokens, max_tokens) ==
    IF i = 0 THEN context_parts
    ELSE LET msg_text == msg_text_of(messages[i])
             msg_tokens == word_count(msg_text)
         IN  IF current_tokens + msg_tokens > max_tokens
             THEN context_parts
             ELSE context_parts_from(messages, i - 1,
                                     <<msg_text>> \o context_parts,
                                     current_tokens + msg_tokens, max_tokens)

\* ConversationManager.get_conversation_context
get_conversation_context(store, conversation_id, max_tokens) ==
    IF conversation_id \notin DOMAIN store THEN <<>>
    ELSE LET messages == store[conversation_id].messages
         IN  Join(context_parts_from(messages, Len(messages), <<>>, 0,
                                     max_tokens))

\* sum(len(m.content) for m in messages)
RECURSIVE ContentLength(_)
ContentLength(messages) ==
    IF messages = <<>> THEN 0
    ELSE Len(Head(messages).content) + ContentLength(Tail(messages))

\* get_conversation_stats of an id that is not in the store: {}
NoStats == [found |-> FALSE, conversation_id |-> 0, total_messages |-> 0,
            user_messages |-> 0, assistant_messages |-> 0,
            content_length |-> 0, created_at |-> 0, updated_at |-> 0,
            duration |-> 0]

\* ConversationManager.get_conversation_stats; avg_message_length is
\* content_length / total_messages, 0 for no message
get_conversation_stats(store, times, conversation_id) ==
    IF conversation_id \notin DOMAIN store THEN NoStats
    ELSE LET messages == store[conversation_id].messages
             with(role) == {i \in 1..Len(messages) : messages[i].role = role}
         IN  [found |-> TRUE,
              conversation_id |-> conversation_id,
              total_messages |-> Len(messages),
              user_messages |-> Cardinality(with("user")),
              assistant_messages |-> Cardinality(with("assistant")),
              content_length |-> ContentLength(messages),
              created_at |-> times[conversation_id].created_at,
              updated_at |-> times[conversation_id].updated_at,
              duration |-> times[conversation_id].updated_at
                           - times[conversation_id].created_at]

\* The return value of one ConversationManager call
ConvRet(op, ok, conversation_id) ==
    [op |-> op, ok |-> ok, conversation_id |-> conversation_id, limit |-> 0,
     history |-> <<>>, stats |-> NoStats, max_tokens |-> 0,
     context |-> <<>>]

\* No ConversationManager call yet
NoConvRet == ConvRet("none", TRUE, 0)

\* An id no call has been made with
NoCalls == [life |-> "never", inputs |-> <<>>, cleared |-> FALSE]

EmptyStore == [c \in {} |-> 0]

\* A session no indexing run has built an id for
NoIdRun == [kind |-> "none", files |-> 0, ids |-> <<>>]

\* No validator call yet
NoValidation == [fn |-> "none", input |-> <<>>, raised |-> FALSE,
                 value |-> <<>>]

\* No indexing run of process_repository yet
NoRepoRun == [pc |-> "none", repo |-> {}, files |-> {}, pending |-> {},
              indexed |-> {}]

\* No gather of process_repository yet
NoGather == [phase |-> "none", total_files |-> 0, file_counter |-> 0,
             total_chunks |-> 0, chunk_counter |-> 0, waiting |-> 0,
             calling |-> 0, yielded |-> 0, done |-> 0]

\* RateLimiter(): empty windows and a full bucket of 100 tokens
NewLimiter == [now |-> 0, calls |-> 0, ip |-> <<>>, session |-> <<>>,
               query |-> <<>>, tokens |-> 100, last_refill |-> 0,
               ret |-> "none"]

\* The threads that share one ConversationManager
ThreadIds == {"t1", "t2"}

\* A thread that has made no call yet
NoCall == [pc |-> "idle", op |-> "none", conversation_id |-> 0,
           m |-> [role |-> "none", content |-> <<>>, confidence |-> "None"],
           limit |-> 0, ref |-> -1, now |-> 0, copied |-> <<>>, calls |-> 0,
           ok |-> TRUE, history |-> <<>>, stats |-> NoStats,
           serial_ok |-> TRUE, quiet |-> FALSE, disturbed |-> FALSE,
           waited |-> FALSE, expected_history |-> <<>>,
           expected_stats |-> NoStats]

----------------------------------------------------------------------------
(* The vector store (chromadb.PersistentClient) as RAGService uses it.     *)
(* A collection is a bag of entries: how many entries each writer stored.  *)

\* A collection just created
EmptyCollection == [exists |-> TRUE, entries |-> [t \in RunTags |-> 0]]

\* No collection of that name
NoCollection == [exists |-> FALSE, entries |-> [t \in RunTags |-> 0]]

RECURSIVE CountFrom(_, _)
CountFrom(coll, t) ==
    IF t > MaxRuns THEN 0 ELSE coll.entries[t] + CountFrom(coll, t + 1)

\* collection.count()
Count(coll) == CountFrom(coll, 0)


\* A store call raises when the store cannot serve it: get_collection of an
\* absent name, create_collection of an existing one, delete_collection of an
\* absent one -- or, for any call, when the store itself fails (a fault).
StoreFaults == [{"get1", "create1", "get2", "create2"} -> BOOLEAN]

\* RAGService._get_or_create_collection: [ok, colls]; ok = FALSE is DatabaseError
get_or_create_collection(colls, session_id, faults) ==
    LET exists == colls[session_id] # NoCollection
        try(getFault, createFault) ==
            IF exists /\ ~getFault THEN "got"
            ELSE IF ~exists /\ ~createFault THEN "created"
            ELSE "failed"
        first == try(faults.get1, faults.create1)
        second == try(faults.get2, faults.create2)
        outcome == IF first # "failed" THEN first ELSE second
    IN  [ok |-> outcome # "failed",
         colls |-> IF outcome = "created"
                   THEN [colls EXCEPT ![session_id] = EmptyCollection]
                   ELSE colls]

\* RAGService._reset_collection: whatever delete_collection raises is swallowed
reset_collection(colls, session_id, deleteFault, faults) ==
    LET deleted == IF colls[session_id] # NoCollection /\ ~deleteFault
                   THEN [colls EXCEPT ![session_id] = NoCollection]
                   ELSE colls
    IN  get_or_create_collection(deleted, session_id, faults)

\* range(0, total, batch_size)
BatchStarts(total) == {b \in 0..total : b < total /\ b % batch_size = 0}

\* The batch loop of create_index from batch_start on: the number of chunks
\* stored. A batch whose embed_documents or collection.add raises is logged
\* and the loop goes on.
RECURSIVE StoreBatches(_, _, _)
StoreBatches(batch_start, total, failed) ==
    IF batch_start >= total THEN 0
    ELSE LET batch == Min(batch_size, total - batch_start)
         IN  (IF batch_start \in failed THEN 0 ELSE batch)
             + StoreBatches(batch_start + batch_size, total, failed)

\* create_index's return value: len(chunks)
create_index_ret(total, stored) == total

NoIndexRet == [session_id |-> "none", run |-> 0, raised |-> FALSE, total |-> 0,
               failed |-> {}, stored |-> 0, ret |-> 0, delete_failed |-> FALSE]

\* RAGService.create_index(repo_path, session_id), a synchronous call
CreateIndex(s) ==
    /\ index_runs[s] < MaxRuns
    /\ \E nfull \in 0..MaxFullBatches, rem \in 0..MaxRem,
          deleteFault \in BOOLEAN, faults \in StoreFaults :
         LET run == index_runs[s] + 1
             total == nfull * batch_size + rem
             reset == reset_collection(collections, s, deleteFault, faults)
         IN  \E failed \in SUBSET BatchStarts(total) :
               LET stored == StoreBatches(0, total, failed)
               IN  /\ index_runs' = [index_runs EXCEPT ![s] = run]
                   /\ IF reset.ok
                      THEN /\ collections' =
                                [reset.colls EXCEPT ![s].entries[run] = @ + stored]
                           /\ index_ret' =
                                [session_id |-> s, run |-> run, raised |-> FALSE,
                                 total |-> total, failed |-> failed,
                                 stored |-> stored,
                                 ret |-> create_index_ret(total, stored),
                                 delete_failed |->
                                    collections[s] # NoCollection /\ deleteFault]
                      ELSE /\ collections' = reset.colls
                           /\ index_ret' =
                                [NoIndexRet EXCEPT !.session_id = s, !.run = run,
                                                   !.raised = TRUE]
    /\ UNCHANGED <<rag_conversations, next_conv, max_messages, q, queries, convVars, apiVars, chunkVars, threadVars, idVars>>

\* RAGService.add_to_index(chunk, session_id): every failure is logged and
\* swallowed
add_to_index(colls, session_id, faults, addFault) ==
    LET got == get_or_create_collection(colls, session_id, faults)
    IN  IF got.ok /\ ~addFault
        THEN [got.colls EXCEPT ![session_id].entries[0] = @ + 1]
        ELSE got.colls

AddToIndex(s) ==
    /\ collections[s] = NoCollection \/ Count(collections[s]) < MaxEntries
    /\ \E faults \in StoreFaults, addFault \in BOOLEAN :
         collections' = add_to_index(collections, s, faults, addFault)
    /\ UNCHANGED <<index_runs, index_ret, rag_conversations, next_conv,
                   max_messages, q, queries, convVars, apiVars, chunkVars, threadVars, idVars>>

----------------------------------------------------------------------------
(* RAGService.query *)

Distances == 1..MaxDist

IsAscending(r) == \A i \in 1..(Len(r) - 1) : r[i].dist <= r[i + 1].dist

\* collection.query(query_embeddings, n_results=k): the k nearest entries,
\* nearest first; each carries the metadata of its file and its distance
QueryResults(k) ==
    {r \in [1..k -> [file : Files, dist : Distances]] : IsAscending(r)}

\* The test of the boosting loop for one candidate
NamedIn(question, meta) ==
    LET question_lower == LowerStr(question)
        file_name == LowerStr(meta.file_name)
        file_path == LowerStr(meta.file_path)
        file_base == FileBase(file_name)
    IN  \/ IsSubstring(file_name, question_lower)
        \/ IsSubstring(file_path, question_lower)
        \/ IsSubstring(file_base, question_lower)

\* Index of the candidate the boosting loop stops at, 0 when it stops at none
FirstNamed(question, cands) ==
    LET hits == {i \in 1..Len(cands) : NamedIn(question, cands[i].file)}
    IN  IF hits = {} THEN 0 ELSE CHOOSE i \in hits : \A j \in hits : i <= j

\* The boosting loop: lst.insert(0, lst.pop(idx)) for the first candidate named
Boost(question, cands) ==
    LET idx == FirstNamed(question, cands)
    IN  IF idx = 0 THEN cands
        ELSE <<cands[idx]>> \o SubSeq(cands, 1, idx - 1)
                            \o SubSeq(cands, idx + 1, Len(cands))

\* x placed behind every element of the sorted list whose distance is <= its own
InsertByDistance(sorted, x) ==
    LET before == {i \in 1..Len(sorted) : sorted[i].dist <= x.dist}
        k == IF before = {} THEN 0 ELSE CHOOSE i \in before : \A j \in before : i >= j
    IN  SubSeq(sorted, 1, k) \o <<x>> \o SubSeq(sorted, k + 1, Len(sorted))

\* sorted(zip(docs, metas, distances), key=lambda x: x[2]): stable, ascending
RECURSIVE SortedByDistance(_)
SortedByDistance(cands) ==
    IF cands = <<>> THEN <<>>
    ELSE InsertByDistance(SortedByDistance(SubSeq(cands, 1, Len(cands) - 1)),
                          cands[Len(cands)])

\* The re-rank step applied to the boosted lists
Rerank(cands) == IF cands # <<>> THEN SortedByDistance(cands) ELSE cands

\* The final ranked list of query: boosting, then re-ranking
Ranked(question, cands) == Rerank(Boost(question, cands))

\* sources: one entry per ranked candidate, "file" its file_path
Sources(ranked) == [i \in 1..Len(ranked) |-> ranked[i].file.file_path]

\* compute_confidence nested in RAGService.query
compute_confidence(answer, sources) ==
    IF Len(answer) > 50 THEN "high"
    ELSE IF Len(answer) > 30 THEN "medium"
    ELSE "low"

\* history: what the last query that returned a result retrieved and reported
NoPrevQuery == [count |-> 0, dist_sum |-> 0, confidence |-> "none"]

\* sum of the distances of the candidates
RECURSIVE DistSum(_)
DistSum(cands) ==
    IF cands = <<>> THEN 0 ELSE Head(cands).dist + DistSum(Tail(cands))

IdleQuery ==
    [pc |-> "idle", session_id |-> "none", question |-> <<>>,
     conversation_id |-> 0, created |-> FALSE, retrieved |-> <<>>,
     ranked |-> <<>>, count |-> -1, context |-> "none", embed_called |-> FALSE,
     llm_called |-> FALSE, error |-> "none", answer |-> <<>>,
     confidence |-> "none", store_before |-> EmptyStore,
     prev |-> NoPrevQuery]

\* query_start with the conversation bookkeeping moved ahead of the lookup
query_start_bookkeeping_first(store, next, colls, maxlen, s, question, conversation_id, getFault) ==
    LET create == conversation_id = 0
        cid == IF create THEN next + 1 ELSE conversation_id
        store1 == IF create
                  THEN create_conversation(store, cid, s, maxlen)
                  ELSE store
        store2 == add_message(store1, cid, "user", question, "None")
        failed == ~colls[s].exists \/ getFault
    IN  [pc |-> IF failed THEN "failed" ELSE "embedding",
         error |-> IF failed THEN "Repo not indexed" ELSE "none",
         store |-> store2,
         next_conv |-> IF create THEN cid ELSE next,
         conversation_id |-> cid, created |-> create]

\* query, up to its first await: the collection lookup, then the conversation
\* and the user message. What it leaves: the store, the ids handed out, and
\* where the coroutine stands.
query_start(store, next, colls, maxlen, s, question, conversation_id, getFault) ==
    IF ~colls[s].exists \/ getFault
    THEN [pc |-> "failed", error |-> "Repo not indexed", store |-> store,
          next_conv |-> next, conversation_id |-> conversation_id,
          created |-> FALSE]
    ELSE LET create == conversation_id = 0
             cid == IF create THEN next + 1 ELSE conversation_id
             store1 == IF create
                       THEN create_conversation(store, cid, s, maxlen)
                       ELSE store
             store2 == add_message(store1, cid, "user", question, "None")
         IN  [pc |-> "embedding", error |-> "none", store |-> store2,
              next_conv |-> IF create THEN cid ELSE next,
              conversation_id |-> cid, created |-> create]

\* A call of RAGService.query, the limit-th at most
QueryStartWithin(limit, s, question, conversation_id) ==
    /\ q.pc = "idle"
    /\ queries < limit
    /\ queries' = queries + 1
    /\ \E getFault \in BOOLEAN :
         LET r == query_start(rag_conversations, next_conv, collections,
                              max_messages, s, question, conversation_id,
                              getFault)
         IN  /\ r.next_conv <= MaxConvs
             /\ rag_conversations' = r.store
             /\ next_conv' = r.next_conv
             /\ q' = [IdleQuery EXCEPT !.pc = r.pc, !.error = r.error,
                          !.session_id = s, !.question = question,
                          !.conversation_id = r.conversation_id,
                          !.created = r.created,
                          !.store_before = rag_conversations,
                          !.prev = q.prev]
    /\ UNCHANGED <<collections, index_runs, index_ret, max_messages, convVars, apiVars, chunkVars, threadVars, idVars>>

QueryStart(s, question, conversation_id) ==
    QueryStartWithin(MaxQueries, s, question, conversation_id)

\* query, from the return of embed_query to the await of llm.ainvoke:
\* retrieval, boosting, re-ranking, context assembly
QueryRetrieve ==
    /\ q.pc = "embedding"
    /\ \/ \E what \in {"embed_query raised", "collection.query raised"} :
            q' = [q EXCEPT !.pc = "failed", !.error = what,
                           !.embed_called = TRUE]
       \/ LET k == Min(n_results, Count(collections[q.session_id]))
          IN  \E retrieved \in QueryResults(k) :
                LET ranked == Ranked(q.question, retrieved)
                IN  q' = [q EXCEPT !.pc = "generating", !.embed_called = TRUE,
                                   !.count = Count(collections[q.session_id]),
                                   !.retrieved = retrieved, !.ranked = ranked,
                                   !.context = IF ranked = <<>> THEN "placeholder"
                                               ELSE "chunks"]
    /\ UNCHANGED <<collections, index_runs, index_ret, rag_conversations,
                   next_conv, max_messages, queries, convVars, apiVars, chunkVars, threadVars, idVars>>

\* query, from the return of llm.ainvoke to its own return
QueryGenerate ==
    /\ q.pc = "generating"
    /\ \/ /\ q' = [q EXCEPT !.pc = "failed", !.error = "llm.ainvoke raised",
                            !.llm_called = TRUE]
          /\ UNCHANGED rag_conversations
       \/ \E content \in Answers :
            LET answer == Strip(content)
                confidence == compute_confidence(answer, Sources(q.ranked))
                answer_with_confidence == answer \o ConfidenceTag(confidence)
            IN  /\ rag_conversations' =
                      add_message(rag_conversations, q.conversation_id,
                                  "assistant", answer_with_confidence, confidence)
                /\ q' = [q EXCEPT !.pc = "done", !.llm_called = TRUE,
                                  !.answer = answer_with_confidence,
                                  !.confidence = confidence]
    /\ UNCHANGED <<collections, index_runs, index_ret, next_conv, max_messages,
                   queries, convVars, apiVars, chunkVars, threadVars, idVars>>

\* The caller has the result, or the exception
QueryReturn ==
    /\ q.pc \in {"done", "failed"}
    /\ q' = IdleQuery
    /\ UNCHANGED <<collections, index_runs, index_ret, rag_conversations,
                   next_conv, max_messages, queries, convVars, apiVars, chunkVars, threadVars, idVars>>

\* The same return, with what the query retrieved and reported kept as history
QueryReturnRecorded ==
    /\ q.pc \in {"done", "failed"}
    /\ q' = [IdleQuery EXCEPT !.prev =
                IF q.pc = "done"
                THEN [count |-> Len(q.retrieved),
                      dist_sum |-> DistSum(q.retrieved),
                      confidence |-> q.confidence]
                ELSE q.prev]
    /\ UNCHANGED <<collections, index_runs, index_ret, rag_conversations,
                   next_conv, max_messages, queries, convVars, apiVars, chunkVars, threadVars, idVars>>

\* No SemanticChunker call yet
NoDoc == [file_type |-> <<>>, lines |-> <<>>, parses |-> FALSE, tree |-> <<>>]

\* No _find_block_end call yet
NoBlock == [start_line |-> 0, end_line |-> 0]

\* The dict main.sessions and the task process_repository before any request.
\* sessions[id] for an id that is not a key of the dict
NoSession == [present |-> FALSE, status |-> "none", progress |-> 0,
              polled |-> FALSE]

\* The record POST /index stores under a new id
NewSession == [present |-> TRUE, status |-> "indexing", progress |-> 0,
               polled |-> FALSE]

\* The record a restoration from the vector store writes
RestoredSession == [present |-> TRUE, status |-> "ready", progress |-> 100,
                    polled |-> FALSE]

\* No process_repository task for the id
NoTask == [pc |-> "none", total_files |-> 0, file_counter |-> 0,
           total_chunks |-> 0, chunk_counter |-> 0]

\* No HTTP response yet
\* What a handler answers: the status code and the body, the exception that
\* produced it ("none" for a return) and, as history, why it was raised
ApiResp(op, session_id, code, body, error, cause) ==
    [op |-> op, session_id |-> session_id, code |-> code, body |-> body,
     error |-> error, cause |-> cause, conversation_id |-> 0]

NoApiRet == ApiResp("none", "none", 0, "none", "none", "none")

Init ==
    /\ collections = [s \in SessionIds |-> NoCollection]
    /\ index_runs = [s \in SessionIds |-> 0]
    /\ index_ret = NoIndexRet
    /\ rag_conversations = EmptyStore
    /\ next_conv = 0
    /\ max_messages = DefaultMaxMessages
    /\ q = IdleQuery
    /\ queries = 0
    /\ conversations = EmptyStore
    /\ conv_ret = NoConvRet
    /\ conv_times = EmptyStore
    /\ clock = 0
    /\ conv_calls = [c \in ConvIds |-> NoCalls]
    /\ sessions = [id \in SessionIds |-> NoSession]
    /\ task = [id \in SessionIds |-> NoTask]
    /\ api_ret = NoApiRet
    /\ cache_enabled = TRUE
    /\ chroma_dir_exists = TRUE
    /\ query_cache = {}
    /\ doc = NoDoc
    /\ called = "none"
    /\ chunks = <<>>
    /\ block = NoBlock
    /\ th = [t \in ThreadIds |-> NoCall]
    /\ lock = "free"
    /\ conv_orphans = EmptyStore
    /\ serial = [store |-> EmptyStore, times |-> EmptyStore]
    /\ id_runs = [s \in SessionIds |-> NoIdRun]
    /\ validated = NoValidation
    /\ repo_run = NoRepoRun
    /\ gather = NoGather
    /\ limiter = NewLimiter

Next ==
    \/ \E s \in IndexedIds : AddToIndex(s)
    \/ \E s \in SessionIds, question \in Questions, c \in 0..MaxConvs :
          QueryStart(s, question, c)
    \/ QueryRetrieve
    \/ QueryGenerate
    \/ QueryReturn

Spec == Init /\ [][Next]_vars

\* Spec with one more query, so that two queries can be compared
NextQueryPair ==
    \/ \E s \in IndexedIds : AddToIndex(s)
    \/ \E s \in SessionIds, question \in Questions, c \in 0..MaxConvs :
          QueryStartWithin(MaxQueries + 1, s, question, c)
    \/ QueryRetrieve
    \/ QueryGenerate
    \/ QueryReturnRecorded

SpecQueryPair == Init /\ [][NextQueryPair]_vars

NextIndex == \E s \in IndexedIds : CreateIndex(s)

SpecIndex == Init /\ [][NextIndex]_vars

----------------------------------------------------------------------------
(* ConversationManager as its callers drive it (SpecConv) *)

\* add_message calls: " hi\n" from the user; "It may." and
\* "sure [CONFIDENCE: high]" from the assistant, with and without a valid
\* confidence argument
MessageInputs == {
    [role |-> "user", content |-> <<" ", "h", "i", "\n">>, confidence |-> "None"],
    [role |-> "assistant", content |-> <<"I", "t", " ", "m", "a", "y", ".">>,
     confidence |-> "None"],
    [role |-> "assistant", content |-> <<"I", "t", " ", "m", "a", "y", ".">>,
     confidence |-> "high"],
    [role |-> "assistant",
     content |-> <<"s", "u", "r", "e", " ", "[", "C", "O", "N", "F", "I", "D",
                   "E", "N", "C", "E", ":", " ", "h", "i", "g", "h", "]">>,
     confidence |-> "bogus"] }

RECURSIVE HeldIn(_, _)
HeldIn(store, ids) ==
    IF ids = {} THEN 0
    ELSE LET c == CHOOSE x \in ids : TRUE
         IN  Len(store[c].messages) + HeldIn(store, ids \ {c})

\* Messages held by a store
Held(store) == HeldIn(store, DOMAIN store)


\* conversation_manager.create_conversation(session_id)
ConvCreate(s) ==
    /\ next_conv < MaxConvs
    /\ clock < MaxClock
    /\ next_conv' = next_conv + 1
    /\ conversations' =
          create_conversation(conversations, next_conv + 1, s, max_messages)
    /\ conv_times' =
          [c \in (DOMAIN conv_times) \cup {next_conv + 1} |->
              IF c = next_conv + 1
              THEN [created_at |-> clock, updated_at |-> clock]
              ELSE conv_times[c]]
    /\ clock' = clock + 1
    /\ conv_ret' = ConvRet("create", TRUE, next_conv + 1)
    /\ conv_calls' = [conv_calls EXCEPT ![next_conv + 1] =
                         [NoCalls EXCEPT !.life = "live"]]
    /\ UNCHANGED <<collections, index_runs, index_ret, rag_conversations,
                   max_messages, q, queries, apiVars, chunkVars, threadVars, idVars>>

\* conversation_manager.add_message(conversation_id, role, content, confidence)
ConvAddMessage(c, m) ==
    LET ok == add_message_ret(conversations, c)
    IN  /\ Held(conversations) < MaxHeld
        /\ ok => clock < MaxClock
        /\ conversations' =
              add_message(conversations, c, m.role, m.content, m.confidence)
        /\ conv_times' = IF ok THEN [conv_times EXCEPT ![c].updated_at = clock]
                         ELSE conv_times
        /\ clock' = IF ok THEN clock + 1 ELSE clock
        /\ conv_ret' = ConvRet("add", ok, c)
        /\ conv_calls' =
              IF ok THEN [conv_calls EXCEPT ![c].inputs =
                             Append(@, [role |-> m.role, content |-> m.content])]
              ELSE conv_calls
        /\ UNCHANGED <<collections, index_runs, index_ret, rag_conversations,
                       next_conv, max_messages, q, queries, apiVars, chunkVars, threadVars, idVars>>

\* conversation_manager.clear_conversation(conversation_id)
ConvClear(c) ==
    LET ok == c \in DOMAIN conversations
    IN  /\ ok => clock < MaxClock
        /\ conversations' = clear_conversation(conversations, c)
        /\ conv_times' = IF ok THEN [conv_times EXCEPT ![c].updated_at = clock]
                         ELSE conv_times
        /\ clock' = IF ok THEN clock + 1 ELSE clock
        /\ conv_ret' = ConvRet("clear", ok, c)
        /\ conv_calls' = IF ok THEN [conv_calls EXCEPT ![c].cleared = TRUE]
                         ELSE conv_calls
        /\ UNCHANGED <<collections, index_runs, index_ret, rag_conversations,
                       next_conv, max_messages, q, queries, apiVars, chunkVars, threadVars, idVars>>

\* conversation_manager.delete_conversation(conversation_id)
ConvDelete(c) ==
    LET ok == c \in DOMAIN conversations
    IN  /\ conversations' = delete_conversation(conversations, c)
        /\ conv_times' = [x \in (DOMAIN conv_times) \ {c} |-> conv_times[x]]
        /\ conv_ret' = ConvRet("delete", ok, c)
        /\ conv_calls' = IF ok THEN [conv_calls EXCEPT ![c].life = "deleted"]
                         ELSE conv_calls
        /\ UNCHANGED <<collections, index_runs, index_ret, rag_conversations,
                       next_conv, max_messages, q, queries, clock, apiVars,
                       chunkVars, threadVars, idVars>>

\* conversation_manager.get_conversation_history(conversation_id, limit)
ConvHistory(c, limit) ==
    /\ conv_ret' = [ConvRet("history", c \in DOMAIN conversations, c) EXCEPT
                       !.limit = limit,
                       !.history =
                          get_conversation_history(conversations, c, limit)]
    /\ UNCHANGED <<ragVars, conversations, conv_times, clock, conv_calls,
                   apiVars, chunkVars, threadVars, idVars>>

\* conversation_manager.get_conversation_context(conversation_id, max_tokens)
ConvContext(c, max_tokens) ==
    /\ conv_ret' = [ConvRet("context", c \in DOMAIN conversations, c) EXCEPT
                       !.max_tokens = max_tokens,
                       !.context =
                          get_conversation_context(conversations, c,
                                                   max_tokens)]
    /\ UNCHANGED <<ragVars, conversations, conv_times, clock, conv_calls,
                   apiVars, chunkVars, threadVars, idVars>>

\* conversation_manager.get_conversation_stats(conversation_id)
ConvStats(c) ==
    /\ conv_ret' = [ConvRet("stats", c \in DOMAIN conversations, c) EXCEPT
                       !.stats =
                          get_conversation_stats(conversations, conv_times, c)]
    /\ UNCHANGED <<ragVars, conversations, conv_times, clock, conv_calls,
                   apiVars, chunkVars, threadVars, idVars>>

\* ConversationManager(max_messages): a store constructed with any bound
InitConv ==
    /\ collections = [s \in SessionIds |-> NoCollection]
    /\ index_runs = [s \in SessionIds |-> 0]
    /\ index_ret = NoIndexRet
    /\ rag_conversations = EmptyStore
    /\ next_conv = 0
    /\ max_messages \in 1..MaxConfigured
    /\ q = IdleQuery
    /\ queries = 0
    /\ conversations = EmptyStore
    /\ conv_ret = NoConvRet
    /\ conv_times = EmptyStore
    /\ clock = 0
    /\ conv_calls = [c \in ConvIds |-> NoCalls]
    /\ sessions = [id \in SessionIds |-> NoSession]
    /\ task = [id \in SessionIds |-> NoTask]
    /\ api_ret = NoApiRet
    /\ cache_enabled = TRUE
    /\ chroma_dir_exists = TRUE
    /\ query_cache = {}
    /\ doc = NoDoc
    /\ called = "none"
    /\ chunks = <<>>
    /\ block = NoBlock
    /\ th = [t \in ThreadIds |-> NoCall]
    /\ lock = "free"
    /\ conv_orphans = EmptyStore
    /\ serial = [store |-> EmptyStore, times |-> EmptyStore]
    /\ id_runs = [s \in SessionIds |-> NoIdRun]
    /\ validated = NoValidation
    /\ repo_run = NoRepoRun
    /\ gather = NoGather
    /\ limiter = NewLimiter

NextConv ==
    \/ \E s \in IndexedIds : ConvCreate(s)
    \/ \E c \in ConvIds, m \in MessageInputs : ConvAddMessage(c, m)
    \/ \E c \in ConvIds : ConvClear(c)
    \/ \E c \in ConvIds : ConvDelete(c)
    \/ \E c \in ConvIds, limit \in 0..MaxLimit : ConvHistory(c, limit)
    \/ \E c \in ConvIds : ConvStats(c)

SpecConv == InitConv /\ [][NextConv]_vars

\* The context window of conversations as RAGService.query builds them
NextContext ==
    \/ \E s \in IndexedIds : ConvCreate(s)
    \/ \E c \in ConvIds, m \in MessageInputs : ConvAddMessage(c, m)
    \/ \E c \in ConvIds, max_tokens \in 0..MaxTokens :
         ConvContext(c, max_tokens)

SpecContext == InitConv /\ [][NextContext]_vars

----------------------------------------------------------------------------
(* The ids of stored entries (SpecIds): create_index and the background    *)
(* task's add_to_index loop build them from the same three parts.          *)

\* str(uuid.uuid4()) of main.py, shortened: a session id has a fixed length
\* and holds no underscore
SessionChars(s) == IF s = "s1" THEN <<"s", "1">> ELSE <<"s", "2">>

\* The files os.walk yields, in its order: a, a_1 and a_1_0
WalkedFiles == << <<"a">>, <<"a", "_", "1">>, <<"a", "_", "1", "_", "0">> >>

DecimalDigits == <<"0", "1", "2", "3", "4", "5", "6", "7", "8", "9">>

\* str(i) of a non-negative integer
RECURSIVE IntStr(_)
IntStr(i) ==
    IF i < 10 THEN <<DecimalDigits[i + 1]>>
    ELSE IntStr(i \div 10) \o <<DecimalDigits[(i % 10) + 1]>>

\* An id built from the session and the position in the file alone
entry_id_without_path(session_id, file_path, chunk_id) ==
    SessionChars(session_id) \o <<"_">> \o IntStr(chunk_id)

\* f"{session_id}_{file_path}_{chunk_id}"
entry_id(session_id, file_path, chunk_id) ==
    SessionChars(session_id) \o <<"_">> \o file_path \o <<"_">>
        \o IntStr(chunk_id)

\* for i, chunk in enumerate(chunks): the entries of one file's n chunks
RECURSIVE FileEntries(_, _, _)
FileEntries(session_id, file_path, n) ==
    IF n = 0 THEN <<>>
    ELSE Append(FileEntries(session_id, file_path, n - 1),
                [session_id |-> session_id, file_path |-> file_path,
                 chunk_id |-> n - 1,
                 id |-> entry_id(session_id, file_path, n - 1)])

\* One more walked file of a run of the given kind: chunk_document returned
\* n chunks for it, and each gets its metadata and its id
IdsNextFile(s, kind, n) ==
    /\ id_runs[s].kind \in {"none", kind}
    /\ id_runs[s].files < Len(WalkedFiles)
    /\ id_runs' = [id_runs EXCEPT
                     ![s].kind = kind,
                     ![s].files = @ + 1,
                     ![s].ids = @ \o FileEntries(s,
                                    WalkedFiles[id_runs[s].files + 1], n)]
    /\ UNCHANGED <<ragVars, convVars, apiVars, chunkVars, threadVars,
                   validated, repo_run, gather, limiter>>

\* create_index: _process_file_to_documents, then the ids of a batch
CreateIndexIds(s, n) == IdsNextFile(s, "create_index", n)

\* process_repository: get_indexable_chunks, then add_to_index per chunk
AddToIndexIds(s, n) == IdsNextFile(s, "add_to_index", n)

NextIds ==
    \/ \E s \in SessionIds, n \in 0..MaxFileChunks : CreateIndexIds(s, n)
    \/ \E s \in SessionIds, n \in 0..MaxFileChunks : AddToIndexIds(s, n)

SpecIds == Init /\ [][NextIds]_vars

----------------------------------------------------------------------------
(* ConversationManager called from several threads (SpecThreads).  Each    *)
(* call is split into the steps another thread can run between: taking     *)
(* self.lock, the lookup, each write to the record, the release.           *)

\* add_message calls the threads make
ThreadMessages == {m \in MessageInputs : m.confidence = "None"}

\* Every record a thread can hold a reference to: those in the store and
\* those deleted from it
ObjStore ==
    [c \in (DOMAIN conversations) \cup (DOMAIN conv_orphans) |->
        IF c \in DOMAIN conversations THEN conversations[c]
        ELSE conv_orphans[c].record]

ObjTimes ==
    [c \in (DOMAIN conversations) \cup (DOMAIN conv_orphans) |->
        IF c \in DOMAIN conversations THEN conv_times[c]
        ELSE conv_orphans[c].times]

\* A write to records through references
WriteObjects(os, ot) ==
    /\ conversations' = [c \in DOMAIN conversations |-> os[c]]
    /\ conv_times' = [c \in DOMAIN conv_times |-> ot[c]]
    /\ conv_orphans' = [c \in DOMAIN conv_orphans |->
                           [record |-> os[c], times |-> ot[c]]]

\* The steps a thread runs while it holds self.lock
LockedPcs == {"assign", "locked_lookup", "append", "clear", "touch", "delete",
              "release"}

\* The steps of get_conversation_history and get_conversation_stats
ReadPcs == {"lookup", "copy", "times"}

\* A lock that excludes nobody
lock_never_held(l) == TRUE

\* threading.Lock: it can be taken when nobody holds it
lock_free(l) == l = "free"

\* The calls so far, each applied as a whole at the step of its last write
SerialApply(s, call, now) ==
    LET c == call.conversation_id
        found == c \in DOMAIN s.store
    IN  CASE call.op = "create" ->
               [store |-> create_conversation(s.store, c, "s1", max_messages),
                times |-> [x \in (DOMAIN s.times) \cup {c} |->
                              IF x = c THEN [created_at |-> now,
                                             updated_at |-> now]
                              ELSE s.times[x]]]
          [] call.op = "add" ->
               [store |-> add_message(s.store, c, call.m.role, call.m.content,
                                      call.m.confidence),
                times |-> IF found THEN [s.times EXCEPT ![c].updated_at = now]
                          ELSE s.times]
          [] call.op = "clear" ->
               [store |-> clear_conversation(s.store, c),
                times |-> IF found THEN [s.times EXCEPT ![c].updated_at = now]
                          ELSE s.times]
          [] call.op = "delete" ->
               [store |-> delete_conversation(s.store, c),
                times |-> [x \in (DOMAIN s.times) \ {c} |-> s.times[x]]]

\* A write by thread t is seen by the reads other threads are in the middle of
Disturb(t, threads) ==
    [u \in ThreadIds |->
        IF u # t /\ threads[u].pc \in ReadPcs
        THEN [threads[u] EXCEPT !.disturbed = TRUE] ELSE threads[u]]

CallsMade == th["t1"].calls + th["t2"].calls

\* A thread enters a call.  create_conversation draws its id and builds its
\* record before it asks for the lock
ThCall(t, op, c, m, limit) ==
    /\ th[t].pc = "idle"
    /\ CallsMade < MaxThreadCalls
    /\ op = "create" => next_conv < MaxConvs
    /\ next_conv' = IF op = "create" THEN next_conv + 1 ELSE next_conv
    /\ clock' = IF op = "create" THEN clock + 1 ELSE clock
    /\ th' = [th EXCEPT ![t] =
                [NoCall EXCEPT
                    !.pc = IF op \in {"history", "stats"} THEN "lookup"
                           ELSE "acquire",
                    !.op = op,
                    !.conversation_id = IF op = "create" THEN next_conv + 1
                                        ELSE c,
                    !.m = m,
                    !.limit = limit,
                    !.now = clock,
                    !.calls = th[t].calls + 1,
                    !.quiet = \A u \in ThreadIds : th[u].pc \notin LockedPcs,
                    !.waited = lock # "free"]]
    /\ UNCHANGED <<collections, index_runs, index_ret, rag_conversations,
                   max_messages, q, queries, conversations, conv_ret,
                   conv_times, conv_calls, apiVars, chunkVars, idVars, lock,
                   conv_orphans, serial>>

\* with self.lock: entered
ThAcquire(t) ==
    /\ th[t].pc = "acquire"
    /\ lock_free(lock)
    /\ lock' = t
    /\ th' = [th EXCEPT ![t].pc =
                CASE th[t].op = "create" -> "assign"
                  [] th[t].op = "delete" -> "delete"
                  [] OTHER -> "locked_lookup"]
    /\ UNCHANGED <<ragVars, convVars, apiVars, chunkVars, idVars, conv_orphans,
                   serial>>

\* create_conversation: self.conversations[conversation_id] = conversation
ThAssign(t) ==
    LET c == th[t].conversation_id
        after == SerialApply([store |-> conversations, times |-> conv_times],
                             th[t], th[t].now)
    IN  /\ th[t].pc = "assign"
        /\ conversations' = after.store
        /\ conv_times' = after.times
        /\ serial' = SerialApply(serial, th[t], th[t].now)
        /\ th' = [Disturb(t, th) EXCEPT ![t].pc = "release"]
        /\ UNCHANGED <<ragVars, conv_ret, clock, conv_calls, apiVars,
                       chunkVars, idVars, lock, conv_orphans>>

\* add_message and clear_conversation: self.conversations.get(conversation_id)
\* and the return of False for an id that is not there
ThLockedLookup(t) ==
    LET c == th[t].conversation_id
        found == c \in DOMAIN conversations
    IN  /\ th[t].pc = "locked_lookup"
        /\ th' = [th EXCEPT
                    ![t].ref = IF found THEN c ELSE -1,
                    ![t].ok = found,
                    ![t].serial_ok = IF found THEN @ ELSE c \in DOMAIN serial.store,
                    ![t].pc = IF ~found THEN "release"
                              ELSE IF th[t].op = "add" THEN "append"
                              ELSE "clear"]
        /\ UNCHANGED <<ragVars, convVars, apiVars, chunkVars, idVars, lock,
                       conv_orphans, serial>>

\* add_message: conversation.messages.append(message)
ThAppend(t) ==
    LET c == th[t].ref
    IN  /\ th[t].pc = "append"
        /\ WriteObjects(add_message(ObjStore, c, th[t].m.role, th[t].m.content,
                                    th[t].m.confidence), ObjTimes)
        /\ th' = [Disturb(t, th) EXCEPT ![t].pc = "touch"]
        /\ UNCHANGED <<ragVars, conv_ret, clock, conv_calls, apiVars,
                       chunkVars, idVars, lock, serial>>

\* clear_conversation: conversation.messages.clear()
ThClear(t) ==
    LET c == th[t].ref
    IN  /\ th[t].pc = "clear"
        /\ WriteObjects(clear_conversation(ObjStore, c), ObjTimes)
        /\ th' = [Disturb(t, th) EXCEPT ![t].pc = "touch"]
        /\ UNCHANGED <<ragVars, conv_ret, clock, conv_calls, apiVars,
                       chunkVars, idVars, lock, serial>>

\* add_message and clear_conversation: conversation.updated_at = datetime.now()
ThTouch(t) ==
    LET c == th[t].ref
    IN  /\ th[t].pc = "touch"
        /\ WriteObjects(ObjStore, [ObjTimes EXCEPT ![c].updated_at = clock])
        /\ clock' = clock + 1
        /\ serial' = SerialApply(serial, th[t], clock)
        /\ th' = [Disturb(t, th) EXCEPT
                    ![t].pc = "release",
                    ![t].serial_ok = th[t].conversation_id \in DOMAIN serial.store]
        /\ UNCHANGED <<ragVars, conv_ret, conv_calls, apiVars, chunkVars, idVars,
                       lock>>

\* delete_conversation: the test and del self.conversations[conversation_id]
ThDelete(t) ==
    LET c == th[t].conversation_id
        found == c \in DOMAIN conversations
    IN  /\ th[t].pc = "delete"
        /\ conversations' = delete_conversation(conversations, c)
        /\ conv_times' = [x \in (DOMAIN conv_times) \ {c} |-> conv_times[x]]
        /\ conv_orphans' =
              IF ~found THEN conv_orphans
              ELSE [x \in (DOMAIN conv_orphans) \cup {c} |->
                      IF x = c THEN [record |-> conversations[c],
                                     times |-> conv_times[c]]
                      ELSE conv_orphans[x]]
        /\ serial' = SerialApply(serial, th[t], clock)
        /\ th' = [Disturb(t, th) EXCEPT
                    ![t].pc = "release",
                    ![t].ok = found,
                    ![t].serial_ok = c \in DOMAIN serial.store]
        /\ UNCHANGED <<ragVars, conv_ret, clock, conv_calls, apiVars,
                       chunkVars, idVars, lock>>

\* with self.lock: left, and the call returns
ThRelease(t) ==
    /\ th[t].pc = "release"
    /\ lock' = IF lock = t THEN "free" ELSE lock
    /\ th' = [th EXCEPT ![t].pc = "idle"]
    /\ UNCHANGED <<ragVars, convVars, apiVars, chunkVars, idVars, conv_orphans,
                   serial>>

\* get_conversation, which takes no lock; an id that is not there ends the
\* read with [] or {}
ThReadLookup(t) ==
    LET c == th[t].conversation_id
        found == c \in DOMAIN conversations
    IN  /\ th[t].pc = "lookup"
        /\ th' = [th EXCEPT
                    ![t].ref = IF found THEN c ELSE -1,
                    ![t].ok = found,
                    ![t].pc = IF found THEN "copy" ELSE "idle",
                    ![t].expected_history =
                        IF found THEN @
                        ELSE get_conversation_history(serial.store, c,
                                                      th[t].limit),
                    ![t].expected_stats =
                        IF found \/ th[t].op = "history" THEN @
                        ELSE get_conversation_stats(serial.store, serial.times,
                                                    c)]
        /\ UNCHANGED <<ragVars, convVars, apiVars, chunkVars, idVars, lock,
                       conv_orphans, serial>>

\* list(conversation.messages); get_conversation_history returns its slice
ThReadCopy(t) ==
    LET c == th[t].ref
        copied == ObjStore[c].messages
    IN  /\ th[t].pc = "copy"
        /\ th' = [th EXCEPT
                    ![t].copied = copied,
                    ![t].pc = IF th[t].op = "history" THEN "idle" ELSE "times",
                    ![t].history =
                        IF th[t].op = "history"
                        THEN SliceFrom(copied, 0 - th[t].limit) ELSE @,
                    ![t].expected_history =
                        IF th[t].op = "history"
                        THEN get_conversation_history(serial.store, c,
                                                      th[t].limit)
                        ELSE @]
        /\ UNCHANGED <<ragVars, convVars, apiVars, chunkVars, idVars, lock,
                       conv_orphans, serial>>

\* get_conversation_stats: the counts of the copy and the record's two times
ThReadTimes(t) ==
    LET c == th[t].ref
        held == [x \in {c} |-> [session_id |-> ObjStore[c].session_id,
                                messages |-> th[t].copied]]
    IN  /\ th[t].pc = "times"
        /\ th' = [th EXCEPT
                    ![t].pc = "idle",
                    ![t].stats = get_conversation_stats(held, ObjTimes, c),
                    ![t].expected_stats =
                        get_conversation_stats(serial.store, serial.times, c)]
        /\ UNCHANGED <<ragVars, convVars, apiVars, chunkVars, idVars, lock,
                       conv_orphans, serial>>

NextThreads ==
    \/ \E t \in ThreadIds : ThCall(t, "create", 0, NoCall.m, 0)
    \/ \E t \in ThreadIds, c \in ConvIds, m \in ThreadMessages :
          ThCall(t, "add", c, m, 0)
    \/ \E t \in ThreadIds, c \in ConvIds : ThCall(t, "clear", c, NoCall.m, 0)
    \/ \E t \in ThreadIds, c \in ConvIds : ThCall(t, "delete", c, NoCall.m, 0)
    \/ \E t \in ThreadIds, c \in ConvIds, limit \in 1..MaxLimit :
          ThCall(t, "history", c, NoCall.m, limit)
    \/ \E t \in ThreadIds, c \in ConvIds : ThCall(t, "stats", c, NoCall.m, 0)
    \/ \E t \in ThreadIds : ThAcquire(t)
    \/ \E t \in ThreadIds : ThAssign(t)
    \/ \E t \in ThreadIds : ThLockedLookup(t)
    \/ \E t \in ThreadIds : ThAppend(t)
    \/ \E t \in ThreadIds : ThClear(t)
    \/ \E t \in ThreadIds : ThTouch(t)
    \/ \E t \in ThreadIds : ThDelete(t)
    \/ \E t \in ThreadIds : ThRelease(t)
    \/ \E t \in ThreadIds : ThReadLookup(t)
    \/ \E t \in ThreadIds : ThReadCopy(t)
    \/ \E t \in ThreadIds : ThReadTimes(t)

SpecThreads == Init /\ [][NextThreads]_vars

----------------------------------------------------------------------------
(* URLValidator and TextValidator (SpecValid) *)

MAX_QUESTION_LENGTH == 1000

\* str.startswith
StartsWith(s, prefix) ==
    Len(s) >= Len(prefix) /\ SubSeq(s, 1, Len(prefix)) = prefix

\* [a-zA-Z0-9]
IsAlnum(c) ==
    Lower(c) \in {"a", "b", "c", "d", "e", "f", "g", "h", "i", "j", "k", "l",
                  "m", "n", "o", "p", "q", "r", "s", "t", "u", "v", "w", "x",
                  "y", "z", "0", "1", "2", "3", "4", "5", "6", "7", "8", "9"}

\* [a-zA-Z0-9][a-zA-Z0-9-_]*
IsRepoName(s) ==
    /\ s # <<>>
    /\ IsAlnum(s[1])
    /\ \A i \in 1..Len(s) : IsAlnum(s[i]) \/ s[i] \in {"-", "_"}

\* GITHUB_PATTERN.match:
\* ^https://github\.com/<name>/<name>/?$
GithubPatternMatch(url) ==
    LET prefix == <<"h", "t", "t", "p", "s", ":", "/", "/", "g", "i",
                    "t", "h", "u", "b", ".", "c", "o", "m", "/">>
        rest == SubSeq(url, Len(prefix) + 1, Len(url))
        path == IF rest # <<>> /\ rest[Len(rest)] = "/"
                THEN SubSeq(rest, 1, Len(rest) - 1) ELSE rest
        slashes == {i \in 1..Len(path) : path[i] = "/"}
    IN  /\ StartsWith(url, prefix)
        /\ Cardinality(slashes) = 1
        /\ LET k == CHOOSE i \in slashes : TRUE
           IN  /\ IsRepoName(SubSeq(path, 1, k - 1))
               /\ IsRepoName(SubSeq(path, k + 1, Len(path)))

\* URLValidator.validate_github_url: the url it returns, or ValidationError
validate_github_url(url) ==
    IF url = <<>>
    THEN [raised |-> TRUE, value |-> <<>>]
    ELSE LET stripped == Strip(url)
             cleaned == IF \/ StartsWith(stripped, <<"h", "t", "t", "p",
                                                     ":", "/", "/">>)
                           \/ StartsWith(stripped, <<"h", "t", "t", "p",
                                                     "s", ":", "/", "/">>)
                        THEN stripped
                        ELSE <<"h", "t", "t", "p", "s", ":", "/", "/">> \o stripped
         IN  IF GithubPatternMatch(cleaned)
             THEN [raised |-> FALSE, value |-> cleaned]
             ELSE [raised |-> TRUE, value |-> <<>>]

\* Where a word occurs in a text
Occurrences(word, text) ==
    {a \in 1..(Len(text) - Len(word) + 1) :
        SubSeq(text, a, a + Len(word) - 1) = word}

\* re.search(r'<script.*?>.*?</script>', text): '.' matches no newline
SearchScript(text) ==
    LET open == <<"<", "s", "c", "r", "i", "p", "t">>
        close == <<"<", "/", "s", "c", "r", "i", "p", "t", ">">>
    IN  \E a \in Occurrences(open, text) :
          \E c \in Occurrences(close, text) :
             /\ c > a + Len(open)
             /\ \E b \in (a + Len(open))..(c - 1) : text[b] = ">"
             /\ \A i \in (a + Len(open))..(c - 1) : text[i] # "\n"

\* re.search(word + r'\s*=', text)
SearchHandler(word, text) ==
    \E a \in Occurrences(word, text) :
       \E b \in (a + Len(word))..Len(text) :
          /\ text[b] = "="
          /\ \A i \in (a + Len(word))..(b - 1) : IsSpace(text[i])

\* TextValidator._contains_malicious_content
contains_malicious_content(text) ==
    LET text_lower == LowerStr(text)
    IN  \/ SearchScript(text_lower)
        \/ IsSubstring(<<"j", "a", "v", "a", "s", "c", "r", "i", "p",
                         "t", ":">>, text_lower)
        \/ IsSubstring(<<"d", "a", "t", "a", ":", "t", "e", "x", "t",
                         "/", "h", "t", "m", "l">>, text_lower)
        \/ IsSubstring(<<"v", "b", "s", "c", "r", "i", "p", "t", ":">>, text_lower)
        \/ SearchHandler(<<"o", "n", "l", "o", "a", "d">>, text_lower)
        \/ SearchHandler(<<"o", "n", "e", "r", "r", "o", "r">>, text_lower)

\* TextValidator.validate_question: the question it returns, or
\* ValidationError
validate_question(question) ==
    IF question = <<>>
    THEN [raised |-> TRUE, value |-> <<>>]
    ELSE LET stripped == Strip(question)
         IN  IF Len(stripped) > MAX_QUESTION_LENGTH
             THEN [raised |-> TRUE, value |-> <<>>]
             ELSE IF contains_malicious_content(stripped)
             THEN [raised |-> TRUE, value |-> <<>>]
             ELSE [raised |-> FALSE, value |-> stripped]

\* Blanks around an input
Blanks == {<<>>, <<" ">>, <<"\n">>}

\* Repository URLs a client sends: with and without a scheme, on and off
\* github.com, with good and bad owner and repository names
UrlInputs ==
    {<<>>, <<"n", "o", "t", "-", "a", "-", "u", "r", "l">>}
    \cup {lead \o scheme \o host \o path :
            lead \in {<<>>, <<" ">>},
            scheme \in {<<>>, <<"h", "t", "t", "p", ":", "/", "/">>,
                        <<"h", "t", "t", "p", "s", ":", "/", "/">>},
            host \in {<<"g", "i", "t", "h", "u", "b", ".", "c", "o", "m">>,
                      <<"g", "i", "t", "l", "a", "b", ".", "c", "o", "m">>},
            path \in {<<"/", "u", "s", "e", "r", "/", "r", "e", "p", "o">>,
                      <<"/", "u", "s", "e", "r", "/", "r", "e", "p", "o",
                        "/">>,
                      <<"/", "u", "s", "e", "r">>, <<"/", "u", "s", "e",
                                                     "r", "/">>,
                      <<"/", "-", "u", "s", "e", "r", "/", "r", "e", "p",
                        "o">>,
                      <<"/", "u", "s", "e", "r", "/", "-", "r", "e", "p",
                        "o">>,
                      <<"/", "U", "s", "e", "r", "_", "1", "/", "r", "e",
                        "p", "o", "-", "n", "a", "m", "e">>,
                      <<"/", "u", "s", "e", "r", "/", "r", "e", "p", "o",
                        "/", "x">>,
                      <<"/">>}}

\* Questions a client sends: empty, blank, plain, of 1000 and 1001
\* characters, and with each of the patterns the validator looks for
QuestionInputs ==
    {lead \o body \o trail :
       lead \in Blanks, trail \in Blanks,
       body \in {<<>>, <<"W", "h", "a", "t", " ", "i", "s", " ", "i",
                         "t", "?">>,
                 Pad(MAX_QUESTION_LENGTH), Pad(MAX_QUESTION_LENGTH + 1),
                 <<"<", "s", "c", "r", "i", "p", "t", ">", "a", "l", "e",
                   "r", "t", "(", "'", "x", "s", "s", "'", ")", "<", "/",
                   "s", "c", "r", "i", "p", "t", ">">>,
                 <<"<", "S", "C", "R", "I", "P", "T", ">", "a", "\n",
                   "<", "/", "s", "c", "r", "i", "p", "t", ">">>,
                 <<"J", "a", "v", "a", "S", "c", "r", "i", "p", "t", ":",
                   "a", "l", "e", "r", "t", "(", "1", ")">>,
                 <<"d", "a", "t", "a", ":", "t", "e", "x", "t", "/", "h",
                   "t", "m", "l", ",", "x">>,
                 <<"v", "b", "s", "c", "r", "i", "p", "t", ":", "x">>,
                 <<"o", "n", "l", "o", "a", "d", " ", "\t", "=", " ",
                   "f">>,
                 <<"o", "n", "e", "r", "r", "o", "r", "=", "f">>,
                 <<"o", "n", "l", "o", "a", "d", " ", "x", " ", "=", " ",
                   "f">>}}

ValidateGithubUrl(url) ==
    /\ validated.fn = "none"
    /\ validated' = [fn |-> "validate_github_url", input |-> url,
                     raised |-> validate_github_url(url).raised,
                     value |-> validate_github_url(url).value]
    /\ UNCHANGED <<ragVars, convVars, apiVars, chunkVars, threadVars, id_runs,
                   repo_run, gather, limiter>>

ValidateQuestion(question) ==
    /\ validated.fn = "none"
    /\ validated' = [fn |-> "validate_question", input |-> question,
                     raised |-> validate_question(question).raised,
                     value |-> validate_question(question).value]
    /\ UNCHANGED <<ragVars, convVars, apiVars, chunkVars, threadVars, id_runs,
                   repo_run, gather, limiter>>

\* The validators keep no state: each call is made once on an input as drawn,
\* and its outcome stays to be examined
NextValid ==
    \/ \E url \in UrlInputs : ValidateGithubUrl(url)
    \/ \E question \in QuestionInputs : ValidateQuestion(question)

SpecValid == Init /\ [][NextValid]_vars

----------------------------------------------------------------------------
(* The HTTP layer and the background indexing task (SpecApi) *)

\* A collection left by an earlier run of the server
PersistedCollections ==
    {NoCollection, EmptyCollection, [EmptyCollection EXCEPT !.entries[0] = 1]}

\* restore_sessions_from_chromadb, run once at import: every collection that
\* can be read and holds a document becomes a "ready" session
restore_sessions_from_chromadb(colls, dirExists, getFaults) ==
    [id \in SessionIds |->
        IF dirExists /\ colls[id].exists /\ id \notin getFaults
           /\ Count(colls[id]) > 0
        THEN RestoredSession ELSE NoSession]

\* An id generator that may return an id already in use
FreshIdsAny(sess, colls) == SessionIds

\* str(uuid.uuid4()): an id that names no session and no collection

FreshIds(sess, colls) ==
    {id \in SessionIds : ~sess[id].present /\ ~colls[id].exists}

\* POST /index: a new session in status "indexing" and its background task
ApiIndex(id) ==
    /\ id \in FreshIds(sessions, collections)
    /\ sessions' = [sessions EXCEPT ![id] = NewSession]
    /\ task' = [task EXCEPT ![id] = [NoTask EXCEPT !.pc = "scheduled"]]
    /\ api_ret' = ApiResp("index", id, 200, "started", "none", "none")
    /\ UNCHANGED <<ragVars, convVars, chunkVars, threadVars, idVars,
                   cache_enabled, chroma_dir_exists, query_cache>>

\* POST /index with a URL the validator rejects
ApiIndexInvalid ==
    /\ api_ret' = ApiResp("index", "none", 422, "validation",
                          "ValidationError", "invalid url")
    /\ UNCHANGED <<ragVars, convVars, chunkVars, threadVars, idVars, sessions,
                   task, cache_enabled, chroma_dir_exists, query_cache>>

\* The session id a request carries: the uuid4 string of a session id
IdText(id) ==
    <<"0", "0", "0", "0", "0", "0", "0", "0", "-", "0", "0", "0", "0", "-",
      "4", "0", "0", "0", "-", "8", "0", "0", "0", "-", "0", "0", "0", "0",
      "0", "0", "0", "0", "0", "0", "0">> \o <<IF id = "s1" THEN "a" ELSE "B">>

\* Session ids as requests carry them: those of SessionIds and
\* 'invalid-session-id'
RequestIds ==
    {IdText(id) : id \in SessionIds}
    \cup {<<"i", "n", "v", "a", "l", "i", "d", "-", "s", "e", "s", "s", "i",
            "o", "n", "-", "i", "d">>}

\* UUID_PATTERN.match: 8-4-4-4-12 hexadecimal digits, either case
UuidMatch(text) ==
    /\ Len(text) = 36
    /\ \A i \in 1..36 :
          IF i \in {9, 14, 19, 24} THEN text[i] = "-"
          ELSE Lower(text[i]) \in {"0", "1", "2", "3", "4", "5", "6", "7", "8",
                                   "9", "a", "b", "c", "d", "e", "f"}

\* SessionValidator.validate_session_id: the stripped id, or "ValidationError"
validate_session_id(text) ==
    IF text = <<>> THEN "ValidationError"
    ELSE IF ~UuidMatch(Strip(text)) THEN "ValidationError"
    ELSE CHOOSE id \in SessionIds : IdText(id) = Strip(text)

\* validate_session_id of every request id
ValidatedIds == [text \in RequestIds |-> validate_session_id(text)]

\* The except clauses of a handler and the exception handlers of the app:
\* ValidationError is answered 422, HTTPException its own status, and
\* anything else is raised again as GitSleuthException, answered 400
HandlerError(op, id, raised, status, body, cause) ==
    CASE raised = "ValidationError" ->
           ApiResp(op, id, 422, "validation", "ValidationError", cause)
      [] raised = "HTTPException" ->
           ApiResp(op, id, status, body, "HTTPException", cause)
      [] OTHER ->
           ApiResp(op, id, 400, body, "GitSleuthException", cause)

\* GET /status/{id}: 404 for an unknown id, else the stored record, to which
\* the handler adds the keys session_id and uptime
ApiStatus(text) ==
    LET id == ValidatedIds[text]
    IN  /\ IF id = "ValidationError"
           THEN /\ api_ret' = HandlerError("status", "none", "ValidationError",
                                           0, "none", "invalid session id")
                /\ UNCHANGED sessions
           ELSE IF ~sessions[id].present
           THEN /\ api_ret' = HandlerError("status", id, "HTTPException", 404,
                                           "none", "no session")
                /\ UNCHANGED sessions
           ELSE /\ sessions' = [sessions EXCEPT ![id].polled = TRUE]
                /\ api_ret' = ApiResp("status", id, 200, sessions[id].status,
                                      "none", "none")
        /\ UNCHANGED <<ragVars, convVars, chunkVars, threadVars, idVars, task,
                       cache_enabled, chroma_dir_exists, query_cache>>

\* The restoration step of POST /query: an id that is not in sessions and
\* whose collection can be fetched becomes a "ready" session
restore_on_query(sess, colls, id, dirExists, getFault) ==
    IF ~sess[id].present /\ dirExists /\ colls[id].exists /\ ~getFault
    THEN [sess EXCEPT ![id] = RestoredSession]
    ELSE sess

\* The restoration step fetches the collection when the id is valid, has
\* no session, and the store's directory and the collection exist
restore_reads(text) ==
    LET id == ValidatedIds[text]
    IN  /\ id # "ValidationError"
        /\ ~sessions[id].present /\ chroma_dir_exists
        /\ collections[id].exists

\* The handler reaches the generation call when the session is ready, the
\* answer is not cached and the collection exists
rag_query_runs(text) ==
    LET id == ValidatedIds[text]
    IN  /\ id # "ValidationError"
        /\ cache_enabled /\ id \notin query_cache
        /\ collections[id].exists

\* The outcomes of a call to a collaborator: it fails only when it is made
CanFail(made) == IF made THEN BOOLEAN ELSE {FALSE}

\* What RAGService.query raises: Exception("Repo not indexed") when the
\* collection cannot be fetched, and whatever the generation backend raised
rag_query_raises(colls, id, ragFault) ==
    IF ~colls[id].exists THEN [type |-> "Exception", cause |-> "index absent"]
    ELSE IF ragFault
    THEN [type |-> "UpstreamError", cause |-> "generation failed"]
    ELSE [type |-> "none", cause |-> "none"]

\* A handler that does not look at the session's status
query_response_any_status(restored, id, raised) ==
    IF ~restored[id].present
    THEN HandlerError("query", id, "HTTPException", 404, "none", "no session")
    ELSE IF ~cache_enabled
    THEN ApiResp("query", id, 200, "null", "none", "none")
    ELSE IF id \in query_cache
    THEN ApiResp("query", id, 200, "cached", "none", "none")
    ELSE IF raised.type # "none"
    THEN HandlerError("query", id, raised.type, 0, "query failed",
                      raised.cause)
    ELSE ApiResp("query", id, 200, "result", "none", "none")

\* The response of POST /query to a well-formed session id, after the
\* restoration step
query_response(restored, id, raised) ==
    IF ~restored[id].present
    THEN HandlerError("query", id, "HTTPException", 404, "none", "no session")
    ELSE IF restored[id].status # "ready"
    THEN HandlerError("query", id, "HTTPException", 400, "not ready",
                      "not ready")
    ELSE IF ~cache_enabled
    THEN ApiResp("query", id, 200, "null", "none", "none")
    ELSE IF id \in query_cache
    THEN ApiResp("query", id, 200, "cached", "none", "none")
    ELSE IF raised.type # "none"
    THEN HandlerError("query", id, raised.type, 0, "query failed",
                      raised.cause)
    ELSE ApiResp("query", id, 200, "result", "none", "none")

\* The questions requests carry: the empty one and 'What is it?'
ApiQuestions ==
    {<<>>, <<"W", "h", "a", "t", " ", "i", "s", " ", "i", "t", "?">>}

\* Whether validate_question raises, for every question of a request
QuestionRaises ==
    [question \in ApiQuestions |-> validate_question(question).raised]

\* POST /query: the session id and the question are validated, the session
\* is restored when it can be, and a ready session is queried
ApiQuery(text, question) ==
    \E getFault \in CanFail(~QuestionRaises[question] /\ restore_reads(text)),
       ragFault \in CanFail(~QuestionRaises[question]
                               /\ rag_query_runs(text)) :
      LET id == ValidatedIds[text]
          restored == restore_on_query(sessions, collections, id,
                                       chroma_dir_exists, getFault)
          raised == rag_query_raises(collections, id, ragFault)
      IN  /\ IF id = "ValidationError"
             THEN /\ api_ret' = HandlerError("query", "none",
                                             "ValidationError", 0, "none",
                                             "invalid session id")
                  /\ UNCHANGED <<sessions, query_cache>>
             ELSE IF QuestionRaises[question]
             THEN /\ api_ret' = HandlerError("query", "none",
                                             "ValidationError", 0, "none",
                                             "invalid question")
                  /\ UNCHANGED <<sessions, query_cache>>
             ELSE /\ sessions' = restored
                  /\ api_ret' = query_response(restored, id, raised)
                  /\ query_cache' =
                        IF api_ret'.body = "result"
                        THEN query_cache \cup {id} ELSE query_cache
          /\ UNCHANGED <<ragVars, convVars, chunkVars, threadVars, idVars,
                         task, cache_enabled, chroma_dir_exists>>

\* process_repository has returned: its locals are gone
task_returned(tasks, id) ==
    [tasks EXCEPT ![id] = [NoTask EXCEPT !.pc = "finished"]]

\* An except branch that leaves the session as it is
proc_error_unrecorded(sess, id) == sess

\* process_repository's except branch
proc_error(sess, id) ==
    [sess EXCEPT ![id].status = "error", ![id].progress = 0]

\* process_repository up to its first await (clone_repo in the thread pool)
ProcStart(id) ==
    /\ task[id].pc = "scheduled"
    /\ sessions' = [sessions EXCEPT ![id].status = "indexing",
                                    ![id].progress = 5]
    /\ task' = [task EXCEPT ![id].pc = "cloning"]
    /\ UNCHANGED <<ragVars, convVars, chunkVars, threadVars, idVars, api_ret, cache_enabled,
                   chroma_dir_exists, query_cache>>

\* clone_repo returns or raises
ProcCloned(id) ==
    /\ task[id].pc = "cloning"
    /\ \E raised \in BOOLEAN :
         IF raised
         THEN /\ sessions' = proc_error(sessions, id)
              /\ task' = task_returned(task, id)
         ELSE /\ task' = [task EXCEPT ![id].pc = "listing"]
              /\ UNCHANGED sessions
    /\ UNCHANGED <<ragVars, convVars, chunkVars, threadVars, idVars, api_ret, cache_enabled,
                   chroma_dir_exists, query_cache>>

\* get_files returns the files or raises; with no file the gather is over at
\* once and get_indexable_chunks is awaited
ProcListed(id) ==
    /\ task[id].pc = "listing"
    /\ \/ /\ sessions' = proc_error(sessions, id)
          /\ task' = task_returned(task, id)
       \/ /\ \E n \in 0..MaxFiles :
               task' = [task EXCEPT ![id].total_files = n,
                                    ![id].pc = IF n = 0 THEN "chunking"
                                               ELSE "files"]
          /\ UNCHANGED sessions
    /\ UNCHANGED <<ragVars, convVars, chunkVars, threadVars, idVars, api_ret, cache_enabled,
                   chroma_dir_exists, query_cache>>

\* One process_file task resumes after its thread-pool call
ProcFile(id) ==
    /\ task[id].pc = "files"
    /\ LET done == task[id].file_counter + 1
       IN  /\ sessions' = [sessions EXCEPT ![id].progress =
                              5 + (done * 45) \div task[id].total_files]
           /\ task' = [task EXCEPT ![id].file_counter = done,
                                   ![id].pc = IF done = task[id].total_files
                                              THEN "chunking" ELSE "files"]
    /\ UNCHANGED <<ragVars, convVars, chunkVars, threadVars, idVars, api_ret, cache_enabled,
                   chroma_dir_exists, query_cache>>

\* get_indexable_chunks returns the chunks or raises; with no chunk the
\* gather is over at once and the session is ready
ProcChunksListed(id) ==
    /\ task[id].pc = "chunking"
    /\ \/ /\ sessions' = proc_error(sessions, id)
          /\ task' = task_returned(task, id)
       \/ \E n \in 0..MaxChunks :
            IF n = 0
            THEN /\ sessions' = [sessions EXCEPT ![id].status = "ready",
                                                 ![id].progress = 100]
                 /\ task' = task_returned(task, id)
            ELSE /\ task' = [task EXCEPT ![id].total_chunks = n,
                                         ![id].pc = "indexing"]
                 /\ UNCHANGED sessions
    /\ UNCHANGED <<ragVars, convVars, chunkVars, threadVars, idVars, api_ret, cache_enabled,
                   chroma_dir_exists, query_cache>>

\* One index_chunk task: add_to_index in the thread pool, then the counter
ProcChunk(id) ==
    /\ task[id].pc = "indexing"
    /\ task[id].chunk_counter < task[id].total_chunks
    /\ collections' \in {add_to_index(collections, id, faults, addFault) :
                            faults \in StoreFaults, addFault \in BOOLEAN}
    /\ LET done == task[id].chunk_counter + 1
       IN  /\ sessions' = [sessions EXCEPT ![id].progress =
                              50 + (done * 45) \div task[id].total_chunks]
           /\ task' = [task EXCEPT ![id].chunk_counter = done]
    /\ UNCHANGED <<index_runs, index_ret, rag_conversations, next_conv,
                   max_messages, q, queries, convVars, chunkVars, threadVars, idVars,
                   api_ret,
                   cache_enabled,
                   chroma_dir_exists, query_cache>>

\* Step 4: every chunk task is done
ProcFinish(id) ==
    /\ task[id].pc = "indexing"
    /\ task[id].chunk_counter = task[id].total_chunks
    /\ sessions' = [sessions EXCEPT ![id].status = "ready",
                                    ![id].progress = 100]
    /\ task' = task_returned(task, id)
    /\ UNCHANGED <<ragVars, convVars, chunkVars, threadVars, idVars, api_ret, cache_enabled,
                   chroma_dir_exists, query_cache>>

\* The server after import: the vector store holds what earlier runs left
InitApi ==
    /\ collections \in [SessionIds -> PersistedCollections]
    /\ index_runs = [s \in SessionIds |-> 0]
    /\ index_ret = NoIndexRet
    /\ rag_conversations = EmptyStore
    /\ next_conv = 0
    /\ max_messages = DefaultMaxMessages
    /\ q = IdleQuery
    /\ queries = 0
    /\ conversations = EmptyStore
    /\ conv_ret = NoConvRet
    /\ conv_times = EmptyStore
    /\ clock = 0
    /\ conv_calls = [c \in ConvIds |-> NoCalls]
    /\ cache_enabled \in BOOLEAN
    /\ chroma_dir_exists \in BOOLEAN
    /\ \E getFaults \in SUBSET SessionIds :
         sessions = restore_sessions_from_chromadb(collections,
                                                   chroma_dir_exists, getFaults)
    /\ task = [id \in SessionIds |-> NoTask]
    /\ api_ret = NoApiRet
    /\ query_cache = {}
    /\ doc = NoDoc
    /\ called = "none"
    /\ chunks = <<>>
    /\ block = NoBlock
    /\ th = [t \in ThreadIds |-> NoCall]
    /\ lock = "free"
    /\ conv_orphans = EmptyStore
    /\ serial = [store |-> EmptyStore, times |-> EmptyStore]
    /\ id_runs = [s \in SessionIds |-> NoIdRun]
    /\ validated = NoValidation
    /\ repo_run = NoRepoRun
    /\ gather = NoGather
    /\ limiter = NewLimiter

NextApi ==
    \/ \E id \in SessionIds : ApiIndex(id)
    \/ ApiIndexInvalid
    \/ \E text \in RequestIds : ApiStatus(text)
    \/ \E text \in RequestIds, question \in ApiQuestions :
         ApiQuery(text, question)
    \/ \E id \in SessionIds : ProcStart(id)
    \/ \E id \in SessionIds : ProcCloned(id)
    \/ \E id \in SessionIds : ProcListed(id)
    \/ \E id \in SessionIds : ProcFile(id)
    \/ \E id \in SessionIds : ProcChunksListed(id)
    \/ \E id \in SessionIds : ProcChunk(id)
    \/ \E id \in SessionIds : ProcFinish(id)

SpecApi == InitApi /\ [][NextApi]_vars

\* A step of the background task of a session
ProcStep(id) ==
    \/ ProcStart(id)
    \/ ProcCloned(id)
    \/ ProcListed(id)
    \/ ProcFile(id)
    \/ ProcChunksListed(id)
    \/ ProcChunk(id)
    \/ ProcFinish(id)

\* POST /index and the background tasks alone
NextProc ==
    \/ \E id \in SessionIds : ApiIndex(id)
    \/ \E id \in SessionIds : ProcStart(id)
    \/ \E id \in SessionIds : ProcCloned(id)
    \/ \E id \in SessionIds : ProcListed(id)
    \/ \E id \in SessionIds : ProcFile(id)
    \/ \E id \in SessionIds : ProcChunksListed(id)
    \/ \E id \in SessionIds : ProcChunk(id)
    \/ \E id \in SessionIds : ProcFinish(id)

\* The event loop runs a scheduled task, and every call a task awaits
\* returns or raises
SpecProc ==
    /\ InitApi
    /\ [][NextProc]_vars
    /\ \A id \in SessionIds : WF_vars(ProcStep(id))

----------------------------------------------------------------------------
(* POST /query and the conversation endpoints (SpecConvApi) *)

\* POST /query of a session that is ready, with caching enabled and no cached
\* answer: the handler awaits rag_service.query(question, session_id,
\* conversation_history), which gets no conversation id
ApiQueryCall(s, question) ==
    /\ sessions[s].present /\ sessions[s].status = "ready"
    /\ cache_enabled
    /\ QueryStartWithin(MaxQueries + 1, s, question, 0)

\* POST /query answers: QueryResponse(**result) with the conversation id of
\* the result, or the response to what rag_service.query raised
ApiQueryReturn ==
    /\ q.pc \in {"done", "failed"}
    /\ api_ret' =
          IF q.pc = "done"
          THEN [ApiResp("query", q.session_id, 200, "result", "none", "none")
                   EXCEPT !.conversation_id = q.conversation_id]
          ELSE HandlerError("query", q.session_id, "Exception", 0,
                            "query failed", q.error)
    /\ q' = IdleQuery
    /\ UNCHANGED <<collections, index_runs, index_ret, rag_conversations,
                   next_conv, max_messages, queries, convVars, sessions, task,
                   cache_enabled, chroma_dir_exists, query_cache, chunkVars,
                   threadVars, idVars>>

\* The response of a conversation endpoint
conversation_response(op, c, found) ==
    IF found
    THEN [ApiResp(op, "none", 200, op, "none", "none")
             EXCEPT !.conversation_id = c]
    ELSE [HandlerError(op, "none", "HTTPException", 404, "none",
                       "no conversation")
             EXCEPT !.conversation_id = c]

\* GET /conversation/{conversation_id}
ApiGetConversation(c) ==
    /\ conv_ret' = ConvRet("get", c \in DOMAIN conversations, c)
    /\ api_ret' = conversation_response("conversation", c,
                                        c \in DOMAIN conversations)
    /\ UNCHANGED <<ragVars, conversations, conv_times, clock, conv_calls,
                   sessions, task, cache_enabled, chroma_dir_exists,
                   query_cache, chunkVars, threadVars, idVars>>

\* GET /conversation/{conversation_id}/history: {"history": history}
ApiGetConversationHistory(c, limit) ==
    /\ conv_ret' = [ConvRet("history", c \in DOMAIN conversations, c) EXCEPT
                       !.limit = limit,
                       !.history =
                          get_conversation_history(conversations, c, limit)]
    /\ api_ret' = conversation_response("history", c, TRUE)
    /\ UNCHANGED <<ragVars, conversations, conv_times, clock, conv_calls,
                   sessions, task, cache_enabled, chroma_dir_exists,
                   query_cache, chunkVars, threadVars, idVars>>

\* DELETE /conversation/{conversation_id}
ApiClearConversation(c) ==
    LET ok == c \in DOMAIN conversations
    IN  /\ ok => clock < MaxClock
        /\ conversations' = clear_conversation(conversations, c)
        /\ conv_times' = IF ok THEN [conv_times EXCEPT ![c].updated_at = clock]
                         ELSE conv_times
        /\ clock' = IF ok THEN clock + 1 ELSE clock
        /\ conv_ret' = ConvRet("clear", ok, c)
        /\ conv_calls' = IF ok THEN [conv_calls EXCEPT ![c].cleared = TRUE]
                         ELSE conv_calls
        /\ api_ret' = conversation_response("clear", c, ok)
        /\ UNCHANGED <<ragVars, sessions, task, cache_enabled,
                       chroma_dir_exists, query_cache, chunkVars, threadVars,
                       idVars>>

\* GET /conversation/{conversation_id}/stats
ApiGetConversationStats(c) ==
    LET stats == get_conversation_stats(conversations, conv_times, c)
    IN  /\ conv_ret' = [ConvRet("stats", c \in DOMAIN conversations, c) EXCEPT
                           !.stats = stats]
        /\ api_ret' = conversation_response("stats", c, stats.found)
        /\ UNCHANGED <<ragVars, conversations, conv_times, clock, conv_calls,
                       sessions, task, cache_enabled, chroma_dir_exists,
                       query_cache, chunkVars, threadVars, idVars>>

NextConvApi ==
    \/ \E s \in SessionIds, question \in Questions : ApiQueryCall(s, question)
    \/ QueryRetrieve
    \/ QueryGenerate
    \/ ApiQueryReturn
    \/ \E c \in ConvIds : ApiGetConversation(c)
    \/ \E c \in ConvIds, limit \in 0..MaxLimit :
          ApiGetConversationHistory(c, limit)
    \/ \E c \in ConvIds : ApiClearConversation(c)
    \/ \E c \in ConvIds : ApiGetConversationStats(c)

SpecConvApi == InitApi /\ [][NextConvApi]_vars

----------------------------------------------------------------------------
(* SemanticChunker: text, patterns and the block end *)

\* \w of the re module, over the characters the files are written in
WordChars ==
    {"a", "b", "c", "d", "e", "f", "g", "h", "i", "j", "k", "l", "m", "n", "o",
     "p", "q", "r", "s", "t", "u", "v", "w", "x", "y", "z",
     "A", "B", "C", "D", "E", "F", "G", "H", "I", "J", "K", "L", "M", "N", "O",
     "P", "Q", "R", "S", "T", "U", "V", "W", "X", "Y", "Z",
     "0", "1", "2", "3", "4", "5", "6", "7", "8", "9", "_"}

\* Pattern elements: a literal, \w+, \s*, \s+, [^>]+, (a|b|...) and (a)?
Lit(text) == [kind |-> "lit", arg |-> text, sub |-> <<>>]
W1 == [kind |-> "w+", arg |-> <<>>, sub |-> <<>>]
S0 == [kind |-> "s*", arg |-> <<>>, sub |-> <<>>]
S1 == [kind |-> "s+", arg |-> <<>>, sub |-> <<>>]
NotGt1 == [kind |-> "[^>]+", arg |-> <<>>, sub |-> <<>>]
Alt(alternatives) == [kind |-> "alt", arg |-> <<>>, sub |-> alternatives]
Opt(pattern) == Alt(<<pattern, <<>>>>)

\* The positions at which a match of pattern[k..], begun at a position of
\* from, can end in s; a position is the index of the next character
RECURSIVE MatchEnds(_, _, _, _)
MatchEnds(pattern, k, s, from) ==
    IF k > Len(pattern) THEN from
    ELSE
      LET el == pattern[k]
          run(p, e, ok(_)) == e > p /\ \A x \in p..(e - 1) : ok(s[x])
          isWord(c) == c \in WordChars
          notGt(c) == c # ">"
          ends ==
            CASE el.kind = "lit" ->
                   {p + Len(el.arg) : p \in
                      {p \in from : /\ p + Len(el.arg) - 1 <= Len(s)
                                    /\ SubSeq(s, p, p + Len(el.arg) - 1) = el.arg}}
              [] el.kind = "w+" ->
                   {e \in 1..(Len(s) + 1) : \E p \in from : run(p, e, isWord)}
              [] el.kind = "s+" ->
                   {e \in 1..(Len(s) + 1) : \E p \in from : run(p, e, IsSpace)}
              [] el.kind = "s*" ->
                   from \cup
                   {e \in 1..(Len(s) + 1) : \E p \in from : run(p, e, IsSpace)}
              [] el.kind = "[^>]+" ->
                   {e \in 1..(Len(s) + 1) : \E p \in from : run(p, e, notGt)}
              [] OTHER ->
                   UNION {MatchEnds(el.sub[a], 1, s, from) : a \in 1..Len(el.sub)}
      IN  IF ends = {} THEN {} ELSE MatchEnds(pattern, k + 1, s, ends)

\* re.match(pattern, line.strip())
re_match(pattern, line) == MatchEnds(pattern, 1, Strip(line), {1}) # {}

\* SemanticChunker._find_block_end from character j of line i (0-based i) on
RECURSIVE ScanBlock(_, _, _, _, _, _)
ScanBlock(lines, i, j, brace_count, in_string, escape_next) ==
    IF i >= Len(lines) THEN Len(lines)
    ELSE IF j > Len(lines[i + 1])
    THEN ScanBlock(lines, i + 1, 1, brace_count, in_string, escape_next)
    ELSE
      LET char == lines[i + 1][j]
      IN  IF escape_next
          THEN ScanBlock(lines, i, j + 1, brace_count, in_string, FALSE)
          ELSE IF char = "\\"
          THEN ScanBlock(lines, i, j + 1, brace_count, in_string, TRUE)
          ELSE IF char \in {"\"", "'"}
          THEN ScanBlock(lines, i, j + 1, brace_count, ~in_string, FALSE)
          ELSE IF ~in_string /\ char \in {"{", "("}
          THEN ScanBlock(lines, i, j + 1, brace_count + 1, in_string, FALSE)
          ELSE IF ~in_string /\ char \in {"}", ")"}
          THEN IF brace_count - 1 = 0 THEN i + 1
               ELSE ScanBlock(lines, i, j + 1, brace_count - 1, in_string, FALSE)
          ELSE ScanBlock(lines, i, j + 1, brace_count, in_string, FALSE)

\* SemanticChunker._find_block_end(lines, start_line), start_line 0-based
find_block_end(lines, start_line) ==
    ScanBlock(lines, start_line, 1, 0, FALSE, FALSE)

----------------------------------------------------------------------------
(* SemanticChunker: the extractors and chunk_document *)

\* str.splitlines() for "\n" line ends
RECURSIVE SplitLines(_)
SplitLines(content) ==
    LET breaks == {i \in 1..Len(content) : content[i] = "\n"}
    IN  IF content = <<>> THEN <<>>
        ELSE IF breaks = {} THEN <<content>>
        ELSE LET k == CHOOSE i \in breaks : \A j \in breaks : i <= j
             IN  <<SubSeq(content, 1, k - 1)>>
                 \o SplitLines(SubSeq(content, k + 1, Len(content)))

\* EXTENSION_MAP.get(file_extension.lower())
get_language_from_extension(file_extension) ==
    LET ext == LowerStr(file_extension)
    IN  CASE ext = <<".", "p", "y">> -> "python"
          [] ext \in {<<".", "j", "s">>, <<".", "j", "s", "x">>} -> "javascript"
          [] ext \in {<<".", "t", "s">>, <<".", "t", "s", "x">>} -> "typescript"
          [] ext = <<".", "j", "a", "v", "a">> -> "java"
          [] ext \in {<<".", "c">>, <<".", "c", "p", "p">>, <<".", "h">>,
                      <<".", "h", "p", "p">>} -> "cpp"
          [] OTHER -> "none"

\* A window that would run past the last line
fallback_end_line_unclipped(i, step, n) == i + step

\* min(i + step, len(lines))
fallback_end_line(i, step, n) == Min(i + step, n)

\* max(10, len(lines) // 2)
fallback_step(n) == Max(10, n \div 2)

\* The loop of _fallback_chunking from window start i (0-based) on
RECURSIVE FallbackFrom(_, _, _)
FallbackFrom(lines, i, step) ==
    IF i >= Len(lines) THEN <<>>
    ELSE LET section == Strip(Join(SubSeq(lines, i + 1,
                                          Min(i + step, Len(lines)))))
             rest == FallbackFrom(lines, i + step, step)
         IN  IF Len(section) > 0
             THEN <<[content |-> section,
                     start_line |-> i + 1,
                     end_line |-> fallback_end_line(i, step, Len(lines)),
                     type |-> "text_section",
                     language |-> "text",
                     is_semantic |-> FALSE]>> \o rest
             ELSE rest

\* SemanticChunker._fallback_chunking(content, file_path)
fallback_chunking(content) ==
    LET lines == SplitLines(content)
    IN  FallbackFrom(lines, 0, fallback_step(Len(lines)))

\* ast.walk(tree): breadth first, children in iter_child_nodes order
RECURSIVE Walk(_, _)
Walk(tree, todo) ==
    IF todo = <<>> THEN <<>>
    ELSE <<todo[1]>> \o Walk(tree, Tail(todo) \o tree[todo[1]].children)

\* The chunks _extract_python_chunks appends for the walked nodes from k on
RECURSIVE PythonFrom(_, _, _, _)
PythonFrom(lines, tree, walked, k) ==
    IF k > Len(walked) THEN <<>>
    ELSE
      LET node == tree[walked[k]]
          rest == PythonFrom(lines, tree, walked, k + 1)
          end_line == Max(node.body_last_lineno, node.lineno)
          code_block == Join(SubSeq(lines, node.lineno, end_line))
      IN  IF /\ node.kind \in {"FunctionDef", "AsyncFunctionDef", "ClassDef"}
             /\ Len(Strip(code_block)) > 20
          THEN <<[content |-> code_block,
                  start_line |-> node.lineno,
                  end_line |-> end_line,
                  type |-> node.kind,
                  language |-> "python",
                  is_semantic |-> TRUE]>> \o rest
          ELSE rest

\* A Python extractor that returns nothing when ast.parse raises
extract_python_chunks_without_fallback(content, parses, tree) ==
    IF ~parses THEN <<>>
    ELSE PythonFrom(SplitLines(content), tree, Walk(tree, <<1>>), 1)

\* SemanticChunker._extract_python_chunks; parses and tree are what
\* ast.parse(content) gives: a SyntaxError, or the module node and below
extract_python_chunks(content, parses, tree) ==
    LET found == PythonFrom(SplitLines(content), tree, Walk(tree, <<1>>), 1)
    IN  IF ~parses THEN fallback_chunking(content)
        ELSE IF found = <<>> THEN fallback_chunking(content)
        ELSE found

\* The patterns of _extract_javascript_chunks, in the order the scanner tries them
javascript_patterns == <<
    \* ^(export\s+)?(async\s+)?function\s+(\w+)
    [chunk_type |-> "function",
     pattern |-> <<Opt(<<Lit(<<"e", "x", "p", "o", "r", "t">>), S1>>),
                  Opt(<<Lit(<<"a", "s", "y", "n", "c">>), S1>>), Lit(<<"f",
                  "u", "n", "c", "t", "i", "o", "n">>), S1, W1>>],
    \* ^(export\s+)?class\s+(\w+)
    [chunk_type |-> "class",
     pattern |-> <<Opt(<<Lit(<<"e", "x", "p", "o", "r", "t">>), S1>>),
                  Lit(<<"c", "l", "a", "s", "s">>), S1, W1>>],
    \* ^(export\s+)?const\s+(\w+)\s*=\s*(async\s+)?\(
    [chunk_type |-> "arrow_function",
     pattern |-> <<Opt(<<Lit(<<"e", "x", "p", "o", "r", "t">>), S1>>),
                  Lit(<<"c", "o", "n", "s", "t">>), S1, W1, S0, Lit(<<"=">>),
                  S0, Opt(<<Lit(<<"a", "s", "y", "n", "c">>), S1>>),
                  Lit(<<"(">>)>>],
    \* ^(export\s+)?let\s+(\w+)\s*=\s*(async\s+)?\(
    [chunk_type |-> "arrow_function",
     pattern |-> <<Opt(<<Lit(<<"e", "x", "p", "o", "r", "t">>), S1>>),
                  Lit(<<"l", "e", "t">>), S1, W1, S0, Lit(<<"=">>), S0,
                  Opt(<<Lit(<<"a", "s", "y", "n", "c">>), S1>>), Lit(<<"(">>)>>],
    \* ^(export\s+)?var\s+(\w+)\s*=\s*(async\s+)?\(
    [chunk_type |-> "arrow_function",
     pattern |-> <<Opt(<<Lit(<<"e", "x", "p", "o", "r", "t">>), S1>>),
                  Lit(<<"v", "a", "r">>), S1, W1, S0, Lit(<<"=">>), S0,
                  Opt(<<Lit(<<"a", "s", "y", "n", "c">>), S1>>), Lit(<<"(">>)>>] >>

\* The patterns of _extract_typescript_chunks, in the order the scanner tries them
typescript_patterns == <<
    \* ^(export\s+)?(async\s+)?function\s+(\w+)
    [chunk_type |-> "function",
     pattern |-> <<Opt(<<Lit(<<"e", "x", "p", "o", "r", "t">>), S1>>),
                  Opt(<<Lit(<<"a", "s", "y", "n", "c">>), S1>>), Lit(<<"f",
                  "u", "n", "c", "t", "i", "o", "n">>), S1, W1>>],
    \* ^(export\s+)?class\s+(\w+)
    [chunk_type |-> "class",
     pattern |-> <<Opt(<<Lit(<<"e", "x", "p", "o", "r", "t">>), S1>>),
                  Lit(<<"c", "l", "a", "s", "s">>), S1, W1>>],
    \* ^(export\s+)?interface\s+(\w+)
    [chunk_type |-> "interface",
     pattern |-> <<Opt(<<Lit(<<"e", "x", "p", "o", "r", "t">>), S1>>),
                  Lit(<<"i", "n", "t", "e", "r", "f", "a", "c", "e">>), S1, W1>>],
    \* ^(export\s+)?type\s+(\w+)
    [chunk_type |-> "type",
     pattern |-> <<Opt(<<Lit(<<"e", "x", "p", "o", "r", "t">>), S1>>),
                  Lit(<<"t", "y", "p", "e">>), S1, W1>>],
    \* ^(export\s+)?const\s+(\w+)\s*:\s*\w+\s*=\s*(async\s+)?\(
    [chunk_type |-> "arrow_function",
     pattern |-> <<Opt(<<Lit(<<"e", "x", "p", "o", "r", "t">>), S1>>),
                  Lit(<<"c", "o", "n", "s", "t">>), S1, W1, S0, Lit(<<":">>),
                  S0, W1, S0, Lit(<<"=">>), S0, Opt(<<Lit(<<"a", "s", "y", "n",
                  "c">>), S1>>), Lit(<<"(">>)>>],
    \* ^(export\s+)?let\s+(\w+)\s*:\s*\w+\s*=\s*(async\s+)?\(
    [chunk_type |-> "arrow_function",
     pattern |-> <<Opt(<<Lit(<<"e", "x", "p", "o", "r", "t">>), S1>>),
                  Lit(<<"l", "e", "t">>), S1, W1, S0, Lit(<<":">>), S0, W1, S0,
                  Lit(<<"=">>), S0, Opt(<<Lit(<<"a", "s", "y", "n", "c">>),
                  S1>>), Lit(<<"(">>)>>] >>

\* The patterns of _extract_java_chunks, in the order the scanner tries them
java_patterns == <<
    \* ^(public|private|protected)?\s*(static\s+)?(final\s+)?class\s+(\w+)
    [chunk_type |-> "class",
     pattern |-> <<Opt(<<Alt(<<<<Lit(<<"p", "u", "b", "l", "i", "c">>)>>,
                  <<Lit(<<"p", "r", "i", "v", "a", "t", "e">>)>>, <<Lit(<<"p",
                  "r", "o", "t", "e", "c", "t", "e", "d">>)>>>>)>>), S0,
                  Opt(<<Lit(<<"s", "t", "a", "t", "i", "c">>), S1>>),
                  Opt(<<Lit(<<"f", "i", "n", "a", "l">>), S1>>), Lit(<<"c",
                  "l", "a", "s", "s">>), S1, W1>>],
    \* ^(public|private|protected)?\s*(static\s+)?(final\s+)?(void|\w+)\s+(\w+)\s*\(
    [chunk_type |-> "method",
     pattern |-> <<Opt(<<Alt(<<<<Lit(<<"p", "u", "b", "l", "i", "c">>)>>,
                  <<Lit(<<"p", "r", "i", "v", "a", "t", "e">>)>>, <<Lit(<<"p",
                  "r", "o", "t", "e", "c", "t", "e", "d">>)>>>>)>>), S0,
                  Opt(<<Lit(<<"s", "t", "a", "t", "i", "c">>), S1>>),
                  Opt(<<Lit(<<"f", "i", "n", "a", "l">>), S1>>),
                  Alt(<<<<Lit(<<"v", "o", "i", "d">>)>>, <<W1>>>>), S1, W1, S0,
                  Lit(<<"(">>)>>],
    \* ^(public|private|protected)?\s*(static\s+)?(final\s+)?(\w+)\s+(\w+)\s*;
    [chunk_type |-> "field",
     pattern |-> <<Opt(<<Alt(<<<<Lit(<<"p", "u", "b", "l", "i", "c">>)>>,
                  <<Lit(<<"p", "r", "i", "v", "a", "t", "e">>)>>, <<Lit(<<"p",
                  "r", "o", "t", "e", "c", "t", "e", "d">>)>>>>)>>), S0,
                  Opt(<<Lit(<<"s", "t", "a", "t", "i", "c">>), S1>>),
                  Opt(<<Lit(<<"f", "i", "n", "a", "l">>), S1>>), W1, S1, W1,
                  S0, Lit(<<";">>)>>] >>

\* The patterns of _extract_cpp_chunks, in the order the scanner tries them
cpp_patterns == <<
    \* ^(class|struct)\s+(\w+)
    [chunk_type |-> "class",
     pattern |-> <<Alt(<<<<Lit(<<"c", "l", "a", "s", "s">>)>>, <<Lit(<<"s", "t",
                  "r", "u", "c", "t">>)>>>>), S1, W1>>],
    \* ^(\w+::)?(\w+)\s+(\w+)\s*\(
    [chunk_type |-> "function",
     pattern |-> <<Opt(<<W1, Lit(<<":", ":">>)>>), W1, S1, W1, S0, Lit(<<"(">>)>>],
    \* ^#include\s*<[^>]+>
    [chunk_type |-> "include",
     pattern |-> <<Lit(<<"#", "i", "n", "c", "l", "u", "d", "e">>), S0,
                  Lit(<<"<">>), NotGt1, Lit(<<">">>)>>],
    \* ^#define\s+(\w+)
    [chunk_type |-> "define",
     pattern |-> <<Lit(<<"#", "d", "e", "f", "i", "n", "e">>), S1, W1>>] >>

\* The loop of a pattern scanner from line i (0-based), pattern k on
RECURSIVE ScanFrom(_, _, _, _, _)
ScanFrom(lines, patterns, language, i, k) ==
    IF i >= Len(lines) THEN <<>>
    ELSE IF k > Len(patterns) THEN ScanFrom(lines, patterns, language, i + 1, 1)
    ELSE
      LET rest == ScanFrom(lines, patterns, language, i, k + 1)
          end_line == find_block_end(lines, i)
          code_block == Join(SubSeq(lines, i + 1, end_line))
      IN  IF /\ re_match(patterns[k].pattern, lines[i + 1])
             /\ end_line > i
             /\ Len(Strip(code_block)) > 20
          THEN <<[content |-> code_block,
                  start_line |-> i + 1,
                  end_line |-> end_line,
                  type |-> patterns[k].chunk_type,
                  language |-> language,
                  is_semantic |-> TRUE]>> \o rest
          ELSE rest

\* A scanner that returns what it found, be it nothing
extract_scanned_chunks_without_fallback(content, patterns, language) ==
    ScanFrom(SplitLines(content), patterns, language, 0, 1)

\* _extract_javascript_chunks, _extract_typescript_chunks,
\* _extract_java_chunks and _extract_cpp_chunks
extract_scanned_chunks(content, patterns, language) ==
    LET found == ScanFrom(SplitLines(content), patterns, language, 0, 1)
    IN  IF found # <<>> THEN found ELSE fallback_chunking(content)

\* The metadata loop of chunk_document: chunk_id and chunk_size
AddMetadata(found) ==
    [i \in 1..Len(found) |->
        [content |-> found[i].content,
         start_line |-> found[i].start_line,
         end_line |-> found[i].end_line,
         type |-> found[i].type,
         language |-> found[i].language,
         is_semantic |-> found[i].is_semantic,
         chunk_id |-> i - 1,
         chunk_size |-> Len(found[i].content)]]

\* SemanticChunker.chunk_document(content, file_path, file_type)
chunk_document(content, file_type, parses, tree) ==
    LET lang == get_language_from_extension(file_type)
    IN  IF Len(content) = 0 \/ Len(Strip(content)) < 10 THEN <<>>
        ELSE AddMetadata(
               CASE lang = "python" -> extract_python_chunks(content, parses, tree)
                 [] lang = "javascript" ->
                      extract_scanned_chunks(content, javascript_patterns, lang)
                 [] lang = "typescript" ->
                      extract_scanned_chunks(content, typescript_patterns, lang)
                 [] lang = "java" ->
                      extract_scanned_chunks(content, java_patterns, lang)
                 [] lang = "cpp" ->
                      extract_scanned_chunks(content, cpp_patterns, lang)
                 [] OTHER -> fallback_chunking(content))

----------------------------------------------------------------------------
(* The files SemanticChunker is called with (SpecChunk) *)

\* Python files, each with what ast.parse returns for it: the nodes in
\* depth-first order, node 1 the module; lineno 0 where a node has none;
\* body_last_lineno is getattr(node.body[-1], 'lineno', node.lineno)

\* class A: |     def method(self): |         return self.value | def function(x): |     return x + 1
PyClassThenFunction == [
    file_type |-> <<".", "p", "y">>,
    content |->
        <<"c", "l", "a", "s", "s", " ", "A", ":", "\n", " ", " ", " ", " ",
        "d", "e", "f", " ", "m", "e", "t", "h", "o", "d", "(", "s", "e", "l",
        "f", ")", ":", "\n", " ", " ", " ", " ", " ", " ", " ", " ", "r", "e",
        "t", "u", "r", "n", " ", "s", "e", "l", "f", ".", "v", "a", "l", "u",
        "e", "\n", "d", "e", "f", " ", "f", "u", "n", "c", "t", "i", "o", "n",
        "(", "x", ")", ":", "\n", " ", " ", " ", " ", "r", "e", "t", "u", "r",
        "n", " ", "x", " ", "+", " ", "1">>,
    parses |-> TRUE,
    tree |-> <<
        [kind |-> "Module", lineno |-> 0, body_last_lineno |-> 0,
         children |-> <<2, 10>>],
        [kind |-> "ClassDef", lineno |-> 1, body_last_lineno |-> 2,
         children |-> <<3>>],
        [kind |-> "FunctionDef", lineno |-> 2, body_last_lineno |-> 3,
         children |-> <<4, 6>>],
        [kind |-> "other", lineno |-> 0, body_last_lineno |-> 0,
         children |-> <<5>>],
        [kind |-> "other", lineno |-> 2, body_last_lineno |-> 0,
         children |-> <<>>],
        [kind |-> "other", lineno |-> 3, body_last_lineno |-> 0,
         children |-> <<7>>],
        [kind |-> "other", lineno |-> 3, body_last_lineno |-> 0,
         children |-> <<8, 9>>],
        [kind |-> "other", lineno |-> 3, body_last_lineno |-> 0,
         children |-> <<9>>],
        [kind |-> "other", lineno |-> 0, body_last_lineno |-> 0,
         children |-> <<>>],
        [kind |-> "FunctionDef", lineno |-> 4, body_last_lineno |-> 5,
         children |-> <<11, 13>>],
        [kind |-> "other", lineno |-> 0, body_last_lineno |-> 0,
         children |-> <<12>>],
        [kind |-> "other", lineno |-> 4, body_last_lineno |-> 0,
         children |-> <<>>],
        [kind |-> "other", lineno |-> 5, body_last_lineno |-> 0,
         children |-> <<14>>],
        [kind |-> "other", lineno |-> 5, body_last_lineno |-> 0,
         children |-> <<15, 16, 17>>],
        [kind |-> "other", lineno |-> 5, body_last_lineno |-> 0,
         children |-> <<9>>],
        [kind |-> "other", lineno |-> 0, body_last_lineno |-> 0,
         children |-> <<>>],
        [kind |-> "other", lineno |-> 5, body_last_lineno |-> 0,
         children |-> <<>>] >> ]

\* def f(x): |     return x
PyOneFunction == [
    file_type |-> <<".", "p", "y">>,
    content |->
        <<"d", "e", "f", " ", "f", "(", "x", ")", ":", "\n", " ", " ", " ",
        " ", "r", "e", "t", "u", "r", "n", " ", "x">>,
    parses |-> TRUE,
    tree |-> <<
        [kind |-> "Module", lineno |-> 0, body_last_lineno |-> 0,
         children |-> <<2>>],
        [kind |-> "FunctionDef", lineno |-> 1, body_last_lineno |-> 2,
         children |-> <<3, 5>>],
        [kind |-> "other", lineno |-> 0, body_last_lineno |-> 0,
         children |-> <<4>>],
        [kind |-> "other", lineno |-> 1, body_last_lineno |-> 0,
         children |-> <<>>],
        [kind |-> "other", lineno |-> 2, body_last_lineno |-> 0,
         children |-> <<6>>],
        [kind |-> "other", lineno |-> 2, body_last_lineno |-> 0,
         children |-> <<7>>],
        [kind |-> "other", lineno |-> 0, body_last_lineno |-> 0,
         children |-> <<>>] >> ]

\* def f(): |  pass
PyShortFunction == [
    file_type |-> <<".", "p", "y">>,
    content |->
        <<"d", "e", "f", " ", "f", "(", ")", ":", "\n", " ", "p", "a", "s",
        "s">>,
    parses |-> TRUE,
    tree |-> <<
        [kind |-> "Module", lineno |-> 0, body_last_lineno |-> 0,
         children |-> <<2>>],
        [kind |-> "FunctionDef", lineno |-> 1, body_last_lineno |-> 2,
         children |-> <<3, 4>>],
        [kind |-> "other", lineno |-> 0, body_last_lineno |-> 0,
         children |-> <<>>],
        [kind |-> "other", lineno |-> 2, body_last_lineno |-> 0,
         children |-> <<>>] >> ]

\* x = 1 | print(x + 1)
PyNoDefinition == [
    file_type |-> <<".", "p", "y">>,
    content |->
        <<"x", " ", "=", " ", "1", "\n", "p", "r", "i", "n", "t", "(", "x",
        " ", "+", " ", "1", ")">>,
    parses |-> TRUE,
    tree |-> <<
        [kind |-> "Module", lineno |-> 0, body_last_lineno |-> 0,
         children |-> <<2, 6>>],
        [kind |-> "other", lineno |-> 1, body_last_lineno |-> 0,
         children |-> <<3, 5>>],
        [kind |-> "other", lineno |-> 1, body_last_lineno |-> 0,
         children |-> <<4>>],
        [kind |-> "other", lineno |-> 0, body_last_lineno |-> 0,
         children |-> <<>>],
        [kind |-> "other", lineno |-> 1, body_last_lineno |-> 0,
         children |-> <<>>],
        [kind |-> "other", lineno |-> 2, body_last_lineno |-> 0,
         children |-> <<7>>],
        [kind |-> "other", lineno |-> 2, body_last_lineno |-> 0,
         children |-> <<8, 10>>],
        [kind |-> "other", lineno |-> 2, body_last_lineno |-> 0,
         children |-> <<9>>],
        [kind |-> "other", lineno |-> 0, body_last_lineno |-> 0,
         children |-> <<>>],
        [kind |-> "other", lineno |-> 2, body_last_lineno |-> 0,
         children |-> <<11, 12, 13>>],
        [kind |-> "other", lineno |-> 2, body_last_lineno |-> 0,
         children |-> <<9>>],
        [kind |-> "other", lineno |-> 0, body_last_lineno |-> 0,
         children |-> <<>>],
        [kind |-> "other", lineno |-> 2, body_last_lineno |-> 0,
         children |-> <<>>] >> ]

\* def f(: |     return 1
PySyntaxError == [
    file_type |-> <<".", "p", "y">>,
    content |->
        <<"d", "e", "f", " ", "f", "(", ":", "\n", " ", " ", " ", " ", "r",
        "e", "t", "u", "r", "n", " ", "1">>,
    parses |-> FALSE,
    tree |-> <<>> ]

\* x = 1
PyTiny == [
    file_type |-> <<".", "p", "y">>,
    content |->
        <<"x", " ", "=", " ", "1">>,
    parses |-> TRUE,
    tree |-> <<
        [kind |-> "Module", lineno |-> 0, body_last_lineno |-> 0,
         children |-> <<2>>],
        [kind |-> "other", lineno |-> 1, body_last_lineno |-> 0,
         children |-> <<3, 5>>],
        [kind |-> "other", lineno |-> 1, body_last_lineno |-> 0,
         children |-> <<4>>],
        [kind |-> "other", lineno |-> 0, body_last_lineno |-> 0,
         children |-> <<>>],
        [kind |-> "other", lineno |-> 1, body_last_lineno |-> 0,
         children |-> <<>>] >> ]

\* async def g(): |     def h(): return 1 |     return h
PyAsyncNested == [
    file_type |-> <<".", "p", "y">>,
    content |->
        <<"a", "s", "y", "n", "c", " ", "d", "e", "f", " ", "g", "(", ")", ":",
        "\n", " ", " ", " ", " ", "d", "e", "f", " ", "h", "(", ")", ":", " ",
        "r", "e", "t", "u", "r", "n", " ", "1", "\n", " ", " ", " ", " ", "r",
        "e", "t", "u", "r", "n", " ", "h">>,
    parses |-> TRUE,
    tree |-> <<
        [kind |-> "Module", lineno |-> 0, body_last_lineno |-> 0,
         children |-> <<2>>],
        [kind |-> "AsyncFunctionDef", lineno |-> 1, body_last_lineno |-> 3,
         children |-> <<3, 4, 8>>],
        [kind |-> "other", lineno |-> 0, body_last_lineno |-> 0,
         children |-> <<>>],
        [kind |-> "FunctionDef", lineno |-> 2, body_last_lineno |-> 2,
         children |-> <<5, 6>>],
        [kind |-> "other", lineno |-> 0, body_last_lineno |-> 0,
         children |-> <<>>],
        [kind |-> "other", lineno |-> 2, body_last_lineno |-> 0,
         children |-> <<7>>],
        [kind |-> "other", lineno |-> 2, body_last_lineno |-> 0,
         children |-> <<>>],
        [kind |-> "other", lineno |-> 3, body_last_lineno |-> 0,
         children |-> <<9>>],
        [kind |-> "other", lineno |-> 3, body_last_lineno |-> 0,
         children |-> <<10>>],
        [kind |-> "other", lineno |-> 0, body_last_lineno |-> 0,
         children |-> <<>>] >> ]

PyFiles == {PyClassThenFunction, PyOneFunction, PyShortFunction,
            PyNoDefinition, PySyntaxError, PyTiny, PyAsyncNested}

\* Lines of brace-language files
ScanLines == <<
    <<"f", "u", "n", "c", "t", "i", "o", "n", " ", "c", "o", "m", "p", "u",
    "t", "e", "(", "a", ",", " ", "b", ")", " ", "{">>,
    <<" ", "b", "a", "r", "(", ")", ";">>,
    <<"}">>,
    <<"f", "o", "o", "(", "\"", "{", "\"", ")", " ", "{">>,
    <<"c", "l", "a", "s", "s", " ", "F", "o", "o", " ", "{">>,
    <<"d", "o", " ", "{", " ", "s", " ", "=", " ", "\"", "'", "{", "'", "\"",
    ";">>,
    <<>>,
    <<"c", "l", "a", "s", "s", " ", "F", "o", "o", ";">> >>

\* Extensions of the four pattern scanners
ScanTypes == {<<".", "J", "S">>, <<".", "t", "s", "x">>,
              <<".", "j", "a", "v", "a">>, <<".", "h">>}

\* Files of 1..MaxLines of these lines under each scanner's extension
ScanFiles ==
    {[file_type |-> ext,
      content |-> Join([i \in 1..Len(pick) |-> ScanLines[pick[i]]]),
      parses |-> FALSE,
      tree |-> <<>>] :
        ext \in ScanTypes,
        pick \in UNION {[1..n -> 1..Len(ScanLines)] : n \in 1..MaxLines}}

\* Text files of up to MaxTextLines lines: every line "text", or one run of
\* lines a..b that are empty or a single blank
TextFiles ==
    {[file_type |-> <<".", "m", "d">>,
      content |-> Join([i \in 1..n |-> IF a <= i /\ i <= b THEN blank
                                       ELSE <<"t", "e", "x", "t">>]),
      parses |-> FALSE,
      tree |-> <<>>] :
        n \in 0..MaxTextLines, a \in 1..MaxTextLines, b \in 0..MaxTextLines,
        blank \in {<<>>, <<" ">>}}

Docs == PyFiles \cup ScanFiles \cup TextFiles

\* The chunker keeps no state between calls: each call is made on a file as
\* drawn, and its result stays to be examined.
\* chunk_document(content, file_path, file_type)
ChunkDocument ==
    /\ called = "none"
    /\ chunks' = chunk_document(doc.content, doc.file_type, doc.parses, doc.tree)
    /\ called' = "chunk_document"
    /\ block' = NoBlock
    /\ UNCHANGED <<ragVars, convVars, apiVars, threadVars, idVars, doc>>

\* _fallback_chunking(content, file_path)
FallbackChunking ==
    /\ called = "none"
    /\ chunks' = fallback_chunking(doc.content)
    /\ called' = "_fallback_chunking"
    /\ block' = NoBlock
    /\ UNCHANGED <<ragVars, convVars, apiVars, threadVars, idVars, doc>>

\* _find_block_end(lines, start_line) for a line of a file of up to
\* MaxLines lines
FindBlockEnd(start_line) ==
    LET lines == SplitLines(doc.content)
    IN  /\ called = "none"
        /\ Len(lines) <= MaxLines
        /\ start_line < Len(lines)
        /\ block' = [start_line |-> start_line,
                     end_line |-> find_block_end(lines, start_line)]
        /\ called' = "_find_block_end"
        /\ chunks' = <<>>
        /\ UNCHANGED <<ragVars, convVars, apiVars, threadVars, idVars, doc>>

InitChunk ==
    /\ collections = [s \in SessionIds |-> NoCollection]
    /\ index_runs = [s \in SessionIds |-> 0]
    /\ index_ret = NoIndexRet
    /\ rag_conversations = EmptyStore
    /\ next_conv = 0
    /\ max_messages = DefaultMaxMessages
    /\ q = IdleQuery
    /\ queries = 0
    /\ conversations = EmptyStore
    /\ conv_ret = NoConvRet
    /\ conv_times = EmptyStore
    /\ clock = 0
    /\ conv_calls = [c \in ConvIds |-> NoCalls]
    /\ sessions = [id \in SessionIds |-> NoSession]
    /\ task = [id \in SessionIds |-> NoTask]
    /\ api_ret = NoApiRet
    /\ cache_enabled = TRUE
    /\ chroma_dir_exists = TRUE
    /\ query_cache = {}
    /\ doc \in Docs
    /\ called = "none"
    /\ chunks = <<>>
    /\ block = NoBlock
    /\ th = [t \in ThreadIds |-> NoCall]
    /\ lock = "free"
    /\ conv_orphans = EmptyStore
    /\ serial = [store |-> EmptyStore, times |-> EmptyStore]
    /\ id_runs = [s \in SessionIds |-> NoIdRun]
    /\ validated = NoValidation
    /\ repo_run = NoRepoRun
    /\ gather = NoGather
    /\ limiter = NewLimiter

NextChunk ==
    \/ ChunkDocument
    \/ FallbackChunking
    \/ \E start_line \in 0..(MaxLines - 1) : FindBlockEnd(start_line)

SpecChunk == InitChunk /\ [][NextChunk]_vars

----------------------------------------------------------------------------
(* The files of an indexing run (SpecWalk): what RepoProcessor.get_files  *)
(* lists and what RAGService.get_indexable_chunks chunks                   *)

MAX_FILE_SIZE == 1048576

VALID_EXTENSIONS == {
    <<".", "p", "y">>, <<".", "j", "s">>, <<".", "t", "s">>,
    <<".", "j", "s", "x">>, <<".", "t", "s", "x">>,
    <<".", "j", "a", "v", "a">>, <<".", "c", "p", "p">>, <<".", "c">>,
    <<".", "h">>, <<".", "c", "s">>, <<".", "p", "h", "p">>,
    <<".", "r", "b">>, <<".", "g", "o">>, <<".", "r", "s">>,
    <<".", "s", "w", "i", "f", "t">>, <<".", "k", "t">>,
    <<".", "s", "c", "a", "l", "a">>, <<".", "m", "d">>,
    <<".", "t", "x", "t">>, <<".", "j", "s", "o", "n">>,
    <<".", "y", "a", "m", "l">>, <<".", "y", "m", "l">>,
    <<".", "x", "m", "l">>, <<".", "h", "t", "m", "l">>,
    <<".", "c", "s", "s">>, <<".", "s", "c", "s", "s">>,
    <<".", "s", "a", "s", "s">>, <<".", "l", "e", "s", "s">>,
    <<".", "v", "u", "e">>, <<".", "s", "v", "e", "l", "t", "e">>}

IGNORE_DIRS == {
    <<".", "g", "i", "t">>,
    <<"n", "o", "d", "e", "_", "m", "o", "d", "u", "l", "e", "s">>,
    <<"_", "_", "p", "y", "c", "a", "c", "h", "e", "_", "_">>,
    <<".", "p", "y", "t", "e", "s", "t", "_", "c", "a", "c", "h", "e">>,
    <<"v", "e", "n", "v">>, <<"e", "n", "v">>, <<".", "v", "e", "n", "v">>,
    <<".", "e", "n", "v">>, <<"d", "i", "s", "t">>,
    <<"b", "u", "i", "l", "d">>, <<"t", "a", "r", "g", "e", "t">>,
    <<".", "n", "e", "x", "t">>, <<".", "n", "u", "x", "t">>,
    <<"c", "o", "v", "e", "r", "a", "g", "e">>,
    <<".", "n", "y", "c", "_", "o", "u", "t", "p", "u", "t">>,
    <<"v", "e", "n", "d", "o", "r">>,
    <<"b", "o", "w", "e", "r", "_", "c", "o", "m", "p", "o", "n", "e", "n",
        "t", "s">>,
    <<".", "g", "r", "a", "d", "l", "e">>, <<".", "i", "d", "e", "a">>,
    <<".", "v", "s", "c", "o", "d", "e">>}

\* The directories get_indexable_chunks does not walk into
RagSkippedDirs == {
    <<".", "g", "i", "t">>,
    <<"n", "o", "d", "e", "_", "m", "o", "d", "u", "l", "e", "s">>,
    <<"_", "_", "p", "y", "c", "a", "c", "h", "e", "_", "_">>,
    <<".", "p", "y", "t", "e", "s", "t", "_", "c", "a", "c", "h", "e">>}

\* The suffixes RAGService._should_process_file rejects
RagSkippedSuffixes == {
    <<".", "p", "n", "g">>, <<".", "j", "p", "g">>,
    <<".", "j", "p", "e", "g">>, <<".", "g", "i", "f">>,
    <<".", "i", "c", "o">>, <<".", "s", "v", "g">>, <<".", "p", "d", "f">>}

\* Files of a cloned repository: the directories below the clone, the file
\* name, st_size and the text
RepoFiles == {
    [dirs |-> <<<<"s", "r", "c">>>>, name |-> <<"a", ".", "p", "y">>,
        size |-> 40,
     content |-> <<"t", "e", "x", "t", " ", "t", "e", "x", "t", " ", "t",
         "e", "x", "t">>],
    [dirs |-> <<>>, name |-> <<"M", "a", "k", "e", "f", "i", "l", "e">>,
        size |-> 40,
     content |-> <<"t", "e", "x", "t", " ", "t", "e", "x", "t", " ", "t",
         "e", "x", "t">>],
    [dirs |-> <<<<"d", "i", "s", "t">>>>, name |-> <<"a", "p", "p", ".", "j",
        "s">>,
     size |-> 40, content |-> <<"t", "e", "x", "t", " ", "t", "e", "x", "t",
         " ", "t", "e", "x", "t">>],
    [dirs |-> <<>>, name |-> <<"b", "i", "g", ".", "P", "Y">>,
     size |-> MAX_FILE_SIZE + 1, content |-> <<"t", "e", "x", "t", " ", "t",
         "e", "x", "t", " ", "t", "e", "x", "t">>],
    [dirs |-> <<>>, name |-> <<"l", "o", "g", "o", ".", "p", "n", "g">>,
     size |-> 40, content |-> <<"t", "e", "x", "t", " ", "t", "e", "x", "t",
         " ", "t", "e", "x", "t">>],
    [dirs |-> <<<<"n", "o", "d", "e", "_", "m", "o", "d", "u", "l", "e",
        "s">>>>,
     name |-> <<"x", ".", "j", "s">>, size |-> 40, content |-> <<"t", "e",
         "x", "t", " ", "t", "e", "x", "t", " ", "t", "e", "x", "t">>],
    [dirs |-> <<>>, name |-> <<"e", "m", "p", "t", "y", ".", "m", "d">>,
     size |-> 1, content |-> <<"\n">>] }

\* Path.suffix of a file name
Suffix(name) ==
    LET dots == {i \in 2..(Len(name) - 1) : name[i] = "."}
    IN  IF dots = {} THEN <<>>
        ELSE LET last == CHOOSE i \in dots : \A j \in dots : i >= j
             IN  SubSeq(name, last, Len(name))

\* os.walk with `dirs[:] = [d for d in dirs if d not in skipped]`
Walked(repo, skipped) ==
    {f \in repo : \A i \in 1..Len(f.dirs) : f.dirs[i] \notin skipped}

\* RepoProcessor._should_process_file
should_process_file(f) ==
    /\ LowerStr(Suffix(f.name)) \in VALID_EXTENSIONS
    /\ \A i \in 1..Len(f.dirs) : f.dirs[i] \notin IGNORE_DIRS
    /\ f.name \notin IGNORE_DIRS
    /\ f.size <= MAX_FILE_SIZE

\* RepoProcessor.get_files
get_files(repo) == {f \in Walked(repo, IGNORE_DIRS) : should_process_file(f)}

\* RAGService._should_process_file
rag_should_process_file(f) ==
    LowerStr(Suffix(f.name)) \notin RagSkippedSuffixes

\* RAGService.get_indexable_chunks: the files it returns a chunk of. A file
\* named like semantic_chunker.py is chunked whatever the filter says.
get_indexable_chunks(repo) ==
    {f \in Walked(repo, RagSkippedDirs) :
        /\ \/ rag_should_process_file(f)
           \/ IsSubstring(<<"s", "e", "m", "a", "n", "t", "i", "c", "_", "c",
               "h", "u", "n", "k", "e", "r", ".", "p", "y">>,
                          LowerStr(f.name))
        /\ Strip(f.content) # <<>>
        /\ chunk_document(f.content, Suffix(f.name), FALSE, <<>>) # <<>>}

\* process_repository, step 1: clone_repo has returned
RunCloned(repo) ==
    /\ repo_run.pc = "none"
    /\ repo_run' = [NoRepoRun EXCEPT !.pc = "cloned", !.repo = repo]
    /\ UNCHANGED <<ragVars, convVars, apiVars, chunkVars, threadVars, id_runs,
                   validated, gather, limiter>>

\* Step 2: files = get_files(repo_path); process_file stores nothing
RunFilesListed ==
    /\ repo_run.pc = "cloned"
    /\ repo_run' = [repo_run EXCEPT !.pc = "listed",
                                    !.files = get_files(repo_run.repo)]
    /\ UNCHANGED <<ragVars, convVars, apiVars, chunkVars, threadVars, id_runs,
                   validated, gather, limiter>>

\* Step 3: index_chunks = get_indexable_chunks(repo_path)
RunChunksListed ==
    /\ repo_run.pc = "listed"
    /\ repo_run' = [repo_run EXCEPT
                       !.pc = "indexing",
                       !.pending = get_indexable_chunks(repo_run.repo)]
    /\ UNCHANGED <<ragVars, convVars, apiVars, chunkVars, threadVars, id_runs,
                   validated, gather, limiter>>

\* The index_chunk tasks of one file: add_to_index of each of its chunks
RunFileIndexed(f) ==
    /\ repo_run.pc = "indexing"
    /\ f \in repo_run.pending
    /\ repo_run' = [repo_run EXCEPT !.pending = @ \ {f},
                                    !.indexed = @ \cup {f}]
    /\ UNCHANGED <<ragVars, convVars, apiVars, chunkVars, threadVars, id_runs,
                   validated, gather, limiter>>

NextWalk ==
    \/ \E repo \in SUBSET RepoFiles : RunCloned(repo)
    \/ RunFilesListed
    \/ RunChunksListed
    \/ \E f \in RepoFiles : RunFileIndexed(f)

SpecWalk == Init /\ [][NextWalk]_vars

----------------------------------------------------------------------------
(* The two gathers of process_repository (SpecGather): the tasks of a     *)
(* gather are alike, so a gather is the number of tasks at each point.    *)

MAX_FILE_CONCURRENCY == 10
MAX_CHUNK_CONCURRENCY == 10

\* A gather whose tasks take no semaphore
semaphore_absent(holders, value) == TRUE

\* asyncio.Semaphore(value): `async with` enters while fewer than value
\* tasks are inside
semaphore_free(holders, value) == holders < value

\* An assignment of a value that was read before other tasks ran
counter_overwritten(counter) == IF counter = 0 THEN 1 ELSE counter

\* file_counter += 1, chunk_counter += 1: the task reads and writes the
\* counter with no await in between
counter_incremented(counter) == counter + 1

\* The value of the semaphore of a gather
gather_limit(phase) ==
    IF phase = "files" THEN MAX_FILE_CONCURRENCY ELSE MAX_CHUNK_CONCURRENCY

\* get_files has returned n files and asyncio.gather has made their tasks
GatherFiles(n) ==
    /\ gather.phase = "none"
    /\ gather' = [NoGather EXCEPT !.phase = "files", !.total_files = n,
                                  !.waiting = n]
    /\ UNCHANGED <<ragVars, convVars, apiVars, chunkVars, threadVars, id_runs,
                   validated, repo_run, limiter>>

\* A task enters `async with semaphore` and awaits its thread-pool call
TaskAcquire ==
    /\ gather.phase \in {"files", "chunks"}
    /\ gather.waiting > 0
    /\ semaphore_free(gather.calling + gather.yielded,
                      gather_limit(gather.phase))
    /\ gather' = [gather EXCEPT !.waiting = @ - 1, !.calling = @ + 1]
    /\ UNCHANGED <<ragVars, convVars, apiVars, chunkVars, threadVars, id_runs,
                   validated, repo_run, limiter>>

\* The thread-pool call of a task has returned: the task counts it and
\* yields at asyncio.sleep(0), still inside the semaphore
TaskCounted ==
    /\ gather.calling > 0
    /\ gather' =
         IF gather.phase = "files"
         THEN [gather EXCEPT !.calling = @ - 1, !.yielded = @ + 1,
                             !.file_counter = counter_incremented(@)]
         ELSE [gather EXCEPT !.calling = @ - 1, !.yielded = @ + 1,
                             !.chunk_counter = counter_incremented(@)]
    /\ UNCHANGED <<ragVars, convVars, apiVars, chunkVars, threadVars, id_runs,
                   validated, repo_run, limiter>>

\* A task leaves `async with semaphore` and ends
TaskReleased ==
    /\ gather.yielded > 0
    /\ gather' = [gather EXCEPT !.yielded = @ - 1, !.done = @ + 1]
    /\ UNCHANGED <<ragVars, convVars, apiVars, chunkVars, threadVars, id_runs,
                   validated, repo_run, limiter>>

\* The first gather is over; get_indexable_chunks has returned n chunks and
\* asyncio.gather has made their tasks
GatherChunks(n) ==
    /\ gather.phase = "files"
    /\ gather.done = gather.total_files
    /\ gather' = [gather EXCEPT !.phase = "chunks", !.total_chunks = n,
                                !.waiting = n, !.done = 0]
    /\ UNCHANGED <<ragVars, convVars, apiVars, chunkVars, threadVars, id_runs,
                   validated, repo_run, limiter>>

\* The second gather is over
GatherFinished ==
    /\ gather.phase = "chunks"
    /\ gather.done = gather.total_chunks
    /\ gather' = [gather EXCEPT !.phase = "done"]
    /\ UNCHANGED <<ragVars, convVars, apiVars, chunkVars, threadVars, id_runs,
                   validated, repo_run, limiter>>

NextGather ==
    \/ \E n \in 0..MaxTasks : GatherFiles(n)
    \/ TaskAcquire
    \/ TaskCounted
    \/ TaskReleased
    \/ \E n \in 0..MaxTasks : GatherChunks(n)
    \/ GatherFinished

SpecGather == Init /\ [][NextGather]_vars

----------------------------------------------------------------------------
(* utils/rate_limiter.py (SpecLimiter): one client address and one session *)

\* The while loop of SlidingWindow.is_allowed: popleft while the oldest
\* request is not after window_start
RECURSIVE clean_old(_, _)
clean_old(requests, window_start) ==
    IF requests # <<>> /\ Head(requests) <= window_start
    THEN clean_old(Tail(requests), window_start)
    ELSE requests

\* SlidingWindow.is_allowed(key) at time now: what it returns and the
\* requests of the key after the call
window_is_allowed(requests, now, window_size, max_requests) ==
    LET kept == clean_old(requests, now - window_size)
    IN  IF Len(kept) < max_requests
        THEN [allowed |-> TRUE, requests |-> Append(kept, now)]
        ELSE [allowed |-> FALSE, requests |-> kept]

\* TokenBucket.consume() at time now: what it returns and the tokens after
\* the call
bucket_consume(tokens, last_refill, now, capacity, refill_rate) ==
    LET refilled == Min(capacity, tokens + (now - last_refill) * refill_rate)
    IN  IF refilled >= 1
        THEN [allowed |-> TRUE, tokens |-> refilled - 1]
        ELSE [allowed |-> FALSE, tokens |-> refilled]

\* RateLimiter.is_allowed(ip, session_id, is_query): the limiter after the
\* call; ret is "allowed" or the check that raised RateLimitError
is_allowed(lim, is_query) ==
    LET ip == window_is_allowed(lim.ip, lim.now, 60, 100)
        session == window_is_allowed(lim.session, lim.now, 60, 50)
        query == window_is_allowed(lim.query, lim.now, 300, 20)
        api == bucket_consume(lim.tokens, lim.last_refill, lim.now, 100, 1)
        after_ip == [lim EXCEPT !.ip = ip.requests]
        after_session == [after_ip EXCEPT !.session = session.requests]
        after_query == IF is_query
                       THEN [after_session EXCEPT !.query = query.requests]
                       ELSE after_session
        after_api == [after_query EXCEPT !.tokens = api.tokens,
                                         !.last_refill = lim.now]
    IN  IF ~ip.allowed THEN [after_ip EXCEPT !.ret = "ip"]
        ELSE IF ~session.allowed THEN [after_session EXCEPT !.ret = "session"]
        ELSE IF is_query /\ ~query.allowed
        THEN [after_query EXCEPT !.ret = "query"]
        ELSE IF ~api.allowed THEN [after_api EXCEPT !.ret = "api"]
        ELSE [after_api EXCEPT !.ret = "allowed"]

\* rate_limiter.is_allowed(client_ip, session_id, is_query)
IsAllowed(is_query) ==
    /\ limiter.calls < MaxCalls
    /\ limiter' = [is_allowed(limiter, is_query) EXCEPT !.calls = @ + 1]
    /\ UNCHANGED <<ragVars, convVars, apiVars, chunkVars, threadVars, id_runs,
                   validated, repo_run, gather>>

\* A minute passes: time.time() is 60 seconds later
MinutePasses ==
    /\ limiter.now < 60 * MaxMinutes
    /\ limiter' = [limiter EXCEPT !.now = @ + 60]
    /\ UNCHANGED <<ragVars, convVars, apiVars, chunkVars, threadVars, id_runs,
                   validated, repo_run, gather>>

NextLimiter ==
    \/ \E is_query \in BOOLEAN : IsAllowed(is_query)
    \/ MinutePasses

SpecLimiter == Init /\ [][NextLimiter]_vars

----------------------------------------------------------------------------
(* Claims about RAGService.query (Spec) *)

\* C1: when the question names the file of a retrieved candidate, the first
\* such candidate in retrieval order is at index 0 of the final ranked list,
\* and so of the returned sources, whatever its distance rank.
C1_BoostedCandidateFirst ==
    (q.pc \in {"generating", "done"} /\ FirstNamed(q.question, q.retrieved) # 0)
        => /\ q.ranked[1] = q.retrieved[FirstNamed(q.question, q.retrieved)]
           /\ Sources(q.ranked)[1] =
                q.retrieved[FirstNamed(q.question, q.retrieved)].file.file_path

\* C2: a query against a collection that is absent or holds no entries fails;
\* it never returns an answer built without retrieved context.
C2_EmptyIndexFailsFast ==
    /\ q.error = "Repo not indexed" => q.pc = "failed" /\ ~q.llm_called
    /\ q.count = 0 => q.pc # "done" /\ ~q.llm_called /\ q.answer = <<>>

\* C7: a query for a session id with no collection fails with the not-indexed
\* error before any effect: the conversation store is as it was before the
\* call, no conversation was created, and neither the embedding nor the
\* generation backend was called.
C7_NotIndexedHasNoEffect ==
    (q.pc # "idle" /\ ~collections[q.session_id].exists)
        => /\ q.pc = "failed"
           /\ q.error = "Repo not indexed"
           /\ rag_conversations = q.store_before
           /\ ~q.created
           /\ ~q.embed_called
           /\ ~q.llm_called

\* C7's case: the query named no conversation, the session has no collection,
\* and the call has failed
C7_Witness ==
    /\ q.pc = "failed"
    /\ q.conversation_id = 0
    /\ ~collections[q.session_id].exists
    /\ q.error = "Repo not indexed"

\* low < medium < high
ConfidenceRank(c) == CASE c = "high" -> 3 [] c = "medium" -> 2 [] OTHER -> 1

\* C21: of two queries that retrieved the same number of candidates, more
\* than zero, the one with the strictly lower mean distance never reports a
\* strictly lower confidence than the other.
C21_ConfidenceMonotoneInDistance ==
    (/\ q.pc = "done"
     /\ q.prev.confidence # "none"
     /\ q.prev.count = Len(q.retrieved)
     /\ Len(q.retrieved) > 0)
    => /\ DistSum(q.retrieved) < q.prev.dist_sum
            => ConfidenceRank(q.confidence) >= ConfidenceRank(q.prev.confidence)
       /\ q.prev.dist_sum < DistSum(q.retrieved)
            => ConfidenceRank(q.prev.confidence) >= ConfidenceRank(q.confidence)

\* C20: when retrieval returns zero candidates, the confidence the query
\* reports is low, whatever the generated answer is.
C20_NoCandidateMeansLow ==
    (q.pc = "done" /\ q.retrieved = <<>>) => q.confidence = "low"

\* C28: a query that fails after the collection lookup (the embedding call,
\* the vector-store query or the generation call raised) leaves the
\* conversation store as it was before the query: no conversation created, no
\* user message appended without its assistant reply.
C28_FailedQueryLeavesStore ==
    (/\ q.pc = "failed"
     /\ q.error \in {"embed_query raised", "collection.query raised",
                     "llm.ainvoke raised"})
    => rag_conversations = q.store_before

----------------------------------------------------------------------------
(* Claims about RAGService.create_index (SpecIndex) *)

\* C5: after create_index completes, the session's collection holds no entry
\* written by an earlier run for the same session id.
C5_NoStaleEntries ==
    (index_ret.run > 0 /\ ~index_ret.raised)
        => \A t \in RunTags \ {index_ret.run} :
              collections[index_ret.session_id].entries[t] = 0

\* C6: a failed batch does not abort the run, and the returned chunk_count is
\* the number of chunks stored: the total less every failed batch.
C6_CountIsWhatWasStored ==
    (index_ret.run > 0 /\ ~index_ret.raised)
        => /\ index_ret.ret = index_ret.stored
           /\ collections[index_ret.session_id].entries[index_ret.run]
                 = index_ret.ret

----------------------------------------------------------------------------
(* Claims about ConversationManager (SpecConv) *)

\* C3: after any sequence of add_message calls a conversation retains at most
\* max_messages messages (an append at the bound drops the oldest message).
C3_RetainedWithinBound ==
    \A c \in DOMAIN conversations :
        Len(conversations[c].messages) <= max_messages

\* C11: N messages appended to a newly created conversation, then
\* get_conversation_history(id, limit = N): exactly N entries come back, with
\* the roles and contents that were appended, in the order of the appends.
C11_RoundTripExact ==
    LET calls == conv_calls[conv_ret.conversation_id]
        N == Len(calls.inputs)
    IN  (/\ conv_ret.op = "history" /\ conv_ret.ok
         /\ ~calls.cleared
         /\ conv_ret.limit = N)
        => /\ Len(conv_ret.history) = N
           /\ \A i \in 1..N :
                 /\ conv_ret.history[i].role = calls.inputs[i].role
                 /\ conv_ret.history[i].content = calls.inputs[i].content

\* C11 as amended: the N entries carry the appended roles and the appended
\* contents with leading and trailing whitespace removed, in append order.
C11_RoundTripStripped ==
    LET calls == conv_calls[conv_ret.conversation_id]
        N == Len(calls.inputs)
    IN  (/\ conv_ret.op = "history" /\ conv_ret.ok
         /\ ~calls.cleared
         /\ conv_ret.limit = N)
        => /\ Len(conv_ret.history) = N
           /\ \A i \in 1..N :
                 /\ conv_ret.history[i].role = calls.inputs[i].role
                 /\ conv_ret.history[i].content = Strip(calls.inputs[i].content)

\* C11's case: two different messages, one of them with surrounding
\* whitespace, were appended to a new conversation and history(limit = 2)
\* has returned.
C11_Witness ==
    LET calls == conv_calls[conv_ret.conversation_id]
    IN  /\ conv_ret.op = "history" /\ conv_ret.ok
        /\ ~calls.cleared
        /\ conv_ret.limit = 2 /\ Len(calls.inputs) = 2
        /\ calls.inputs[1] # calls.inputs[2]
        /\ \E i \in 1..2 : Strip(calls.inputs[i].content) # calls.inputs[i].content

\* C12: for an existing conversation with T retained messages and a limit
\* >= 0, get_conversation_history returns the last min(limit, T) retained
\* messages in chronological order, so never more than limit entries.
C12_HistoryIsLastLimit ==
    (conv_ret.op = "history" /\ conv_ret.ok)
    => LET messages == conversations[conv_ret.conversation_id].messages
           T == Len(messages)
           k == Min(conv_ret.limit, T)
       IN  conv_ret.history = SubSeq(messages, T - k + 1, T)

\* C13: a conversation id is resolvable (add_message returns True, stats is
\* non-empty) exactly from its create_conversation to its delete_conversation
\* and never afterwards; clear_conversation empties the messages and keeps the
\* id resolvable, and stats called next reports total_messages = 0.
C13_ResolvableFromCreateToDelete ==
    /\ [](/\ \A c \in ConvIds :
               (c \in DOMAIN conversations) = (conv_calls[c].life = "live")
          /\ conv_ret.op \in {"add", "clear"}
               => conv_ret.ok = (conv_calls[conv_ret.conversation_id].life = "live")
          /\ conv_ret.op = "stats"
               => conv_ret.stats.found
                    = (conv_calls[conv_ret.conversation_id].life = "live")
          /\ (conv_ret.op = "clear" /\ conv_ret.ok)
               => conversations[conv_ret.conversation_id].messages = <<>>)
    /\ [][/\ \A c \in ConvIds :
               conv_calls[c].life = "deleted" => conv_calls'[c].life = "deleted"
          /\ (/\ conv_ret.op = "clear" /\ conv_ret.ok
              /\ conv_ret'.op = "stats"
              /\ conv_ret'.conversation_id = conv_ret.conversation_id)
               => /\ conv_ret'.stats.found
                  /\ conv_ret'.stats.total_messages = 0]_vars

\* C13's case: a conversation was created, cleared and deleted, and a stats
\* call for its id has then returned the empty record.
C13_Witness ==
    LET calls == conv_calls[conv_ret.conversation_id]
    IN  /\ conv_ret.op = "stats" /\ ~conv_ret.stats.found
        /\ calls.life = "deleted" /\ calls.cleared
        /\ calls.inputs # <<>>

\* C14: add_message, clear_conversation and delete_conversation called with
\* an id that is not in the store return False and change nothing: the ids,
\* every conversation's messages and every updated_at stay as they were.
C14_NotFoundChangesNothing ==
    [][(/\ conv_ret'.op \in {"add", "clear", "delete"}
        /\ conv_ret'.conversation_id \notin DOMAIN conversations)
       => /\ conv_ret'.ok = FALSE
          /\ conversations' = conversations
          /\ conv_times' = conv_times]_vars

\* C14's case: add_message was called with an id that no conversation has,
\* while another conversation held a message.
C14_Witness ==
    /\ conv_ret.op = "add" /\ ~conv_ret.ok
    /\ conv_ret.conversation_id \notin DOMAIN conversations
    /\ \E c \in DOMAIN conversations : conversations[c].messages # <<>>

----------------------------------------------------------------------------
(* Claims about the ids of stored entries (SpecIds) *)

\* C16: stored entry ids are unique: within one indexing run no two chunks
\* get the same id (two chunks of one file differ in chunk_id, chunks of
\* different files in file_path), and ids of two sessions never coincide.
C16_StoredIdsUnique ==
    /\ \A s \in SessionIds :
         \A i, j \in 1..Len(id_runs[s].ids) :
            LET x == id_runs[s].ids[i]
                y == id_runs[s].ids[j]
            IN  /\ i # j => x.id # y.id
                /\ (i # j /\ x.file_path = y.file_path) =>
                      x.chunk_id # y.chunk_id
    /\ \A s1, s2 \in SessionIds :
         s1 # s2 =>
            \A i \in 1..Len(id_runs[s1].ids), j \in 1..Len(id_runs[s2].ids) :
               id_runs[s1].ids[i].id # id_runs[s2].ids[j].id

\* Both sessions have indexed the three files, one by each path, and a_1's
\* chunk 0 and a_1_0's chunk 0 are there next to a's chunk 1
C16_Witness ==
    /\ id_runs["s1"].kind = "create_index" /\ id_runs["s1"].files = 3
    /\ id_runs["s2"].kind = "add_to_index" /\ id_runs["s2"].files = 3
    /\ \A s \in SessionIds :
         /\ \E i \in 1..Len(id_runs[s].ids) :
              id_runs[s].ids[i].id = SessionChars(s) \o <<"_", "a", "_", "1">>
         /\ \E i \in 1..Len(id_runs[s].ids) :
              id_runs[s].ids[i].id
                 = SessionChars(s) \o <<"_", "a", "_", "1", "_", "0">>
         /\ \E i \in 1..Len(id_runs[s].ids) :
              id_runs[s].ids[i].id
                 = SessionChars(s) \o <<"_", "a", "_", "1", "_", "0", "_", "0">>

----------------------------------------------------------------------------
(* Claims about the context window (SpecContext) and the stored           *)
(* confidence (SpecConv)                                                   *)

\* The texts of the last k messages, oldest first
SuffixTexts(messages, k) ==
    [i \in 1..k |-> msg_text_of(messages[Len(messages) - k + i])]

\* The summed length estimate of texts
RECURSIVE EstimateSum(_)
EstimateSum(texts) ==
    IF texts = <<>> THEN 0
    ELSE word_count(Head(texts)) + EstimateSum(Tail(texts))

\* The length of the longest suffix of messages whose summed estimate does
\* not exceed max_tokens
LongestSuffix(messages, max_tokens) ==
    LET fits == {k \in 0..Len(messages) :
                    EstimateSum(SuffixTexts(messages, k)) <= max_tokens}
    IN  CHOOSE k \in fits : \A j \in fits : j <= k

\* C35: get_conversation_context(id, max_tokens) returns, oldest first, the
\* texts of exactly the longest suffix of the conversation's messages whose
\* summed length estimate does not exceed max_tokens (so the estimate of
\* what is included never exceeds max_tokens and no message is included
\* without every more recent one), nothing for an unknown id, and the call
\* changes nothing in the store.
C35_ContextIsLongestFittingSuffix ==
    [][\A c \in ConvIds, max_tokens \in 0..MaxTokens :
          (/\ conv_ret'.op = "context" /\ conv_ret'.conversation_id = c
           /\ conv_ret'.max_tokens = max_tokens
           /\ ConvContext(c, max_tokens))
          => /\ conv_ret'.context =
                   IF c \notin DOMAIN conversations THEN <<>>
                   ELSE LET messages == conversations[c].messages
                        IN  Join(SuffixTexts(messages,
                                    LongestSuffix(messages, max_tokens)))
             /\ conversations' = conversations
             /\ conv_times' = conv_times]_vars

\* C35's case: a conversation of three messages whose context was cut: the
\* last message is in the context and the one before it, which does not
\* fit, is not.
C35_Witness ==
    /\ conv_ret.op = "context" /\ conv_ret.ok
    /\ LET messages == conversations[conv_ret.conversation_id].messages
       IN  /\ Len(messages) = 3
           /\ conv_ret.context = msg_text_of(messages[3])
           /\ word_count(msg_text_of(messages[1])) <= conv_ret.max_tokens
                 - word_count(msg_text_of(messages[3]))

\* The confidence the text of an answer states or suggests: the value of its
\* inline [CONFIDENCE: x] tag, else what its keywords give
StatedConfidence(content) ==
    IF ConfidenceMarker(content) # "none" THEN ConfidenceMarker(content)
    ELSE IF \E kw \in HighKeywords : IsSubstring(kw, LowerStr(content))
    THEN "high"
    ELSE IF \E kw \in MediumKeywords : IsSubstring(kw, LowerStr(content))
    THEN "medium"
    ELSE "low"

\* C36: the confidence stored with an appended message is the explicit
\* argument when that is high, medium or low; otherwise, for an assistant
\* message, the value of the inline [CONFIDENCE: x] tag of the text if it has
\* one, else high for a high-certainty keyword, else medium for a hedging
\* keyword, else low; and none for a user message.
C36_StoredConfidence ==
    [][\A c \in ConvIds, m \in MessageInputs :
          (ConvAddMessage(c, m) /\ c \in DOMAIN conversations)
          => LET messages == conversations'[c].messages
             IN  messages[Len(messages)].confidence =
                    IF m.confidence \in ValidConfidence THEN m.confidence
                    ELSE IF m.role = "assistant"
                    THEN StatedConfidence(m.content)
                    ELSE "None"]_vars

----------------------------------------------------------------------------
(* Claims about the session lifecycle (SpecApi) *)

\* C4: a session's status only ever moves from "indexing" to "ready" or to
\* "error"; a session that is "ready" or "error" keeps that status in every
\* step of POST /index, GET /status, POST /query (restoration included) and
\* the background task, so it never becomes "indexing" again.
C4_TerminalStatusIsFinal ==
    [][\A id \in SessionIds :
          /\ sessions[id].status \in {"ready", "error"}
                => sessions'[id].status = sessions[id].status
          /\ sessions[id].status = "indexing"
                => sessions'[id].status \in {"indexing", "ready", "error"}]_vars

\* C4's case: one session's task has failed and a later query of it was
\* refused, another session's task has completed and its status was polled.
C4_Witness ==
    \E a, b \in SessionIds :
       /\ sessions[a].status = "error" /\ task[a].pc = "finished"
       /\ api_ret.op = "query" /\ api_ret.session_id = a
       /\ api_ret.code = 400 /\ api_ret.body = "not ready"
       /\ sessions[b].status = "ready" /\ task[b].pc = "finished"
       /\ sessions[b].polled

\* C22: a failing POST /query tells "index absent" from "upstream generation
\* failed" by the type of its error: the response to a query that failed
\* because the collection is absent never has the error type and the status
\* that the endpoint gives a query whose generation call failed.
C22_ErrorTypeTellsCause ==
    (api_ret.op = "query" /\ api_ret.cause = "index absent") =>
       LET id == api_ret.session_id
           upstream == rag_query_raises(
                           [collections EXCEPT ![id].exists = TRUE], id, TRUE)
           other == HandlerError("query", id, upstream.type, 0,
                                 "query failed", upstream.cause)
       IN  <<api_ret.error, api_ret.code>> # <<other.error, other.code>>

\* C23: GET /status/{session_id} and POST /query answer 404 for every
\* session id that has no session, well-formed or not: whenever one of the
\* two handlers has run on an id that names no session (for POST /query,
\* none after its restoration step either), the response's status is 404.
C23_NoSessionIs404 ==
    [][\A text \in RequestIds :
          ((ApiStatus(text)
            \/ \E question \in ApiQuestions : ApiQuery(text, question))
             /\ \A id \in SessionIds :
                   IdText(id) = text => ~sessions'[id].present)
          => api_ret'.code = 404]_vars

\* C31: whenever process_repository has left a session in status "ready",
\* the collection of the session exists, so RAGService.query does not fail
\* with 'Repo not indexed'; also when there was no chunk to index or every
\* add_to_index call failed.
C31_ReadyHasCollection ==
    \A id \in SessionIds :
       (task[id].pc = "finished" /\ sessions[id].status = "ready")
          => /\ collections[id].exists
             /\ rag_query_raises(collections, id, FALSE).cause # "index absent"

\* The responses of POST /query that RAGService.query was invoked for, or
\* that carry a result
QueriedBodies == {"result", "query failed", "cached", "null"}

C37_ReadyQueryReturnsResult ==
    [][\A text \in RequestIds, question \in ApiQuestions :
          (/\ ApiQuery(text, question)
           /\ ValidatedIds[text] # "ValidationError"
           /\ ~QuestionRaises[question]
           /\ sessions'[ValidatedIds[text]].status = "ready"
           /\ api_ret'.code = 200)
          => api_ret'.body \in {"result", "cached"}]_vars

\* C38: every session POST /index has created eventually leaves status
\* "indexing" for "ready" or "error", when every call the task awaits
\* returns or raises; and no step of a per-file or per-chunk task, failed
\* calls included, puts the session into "error".
C38_IndexingEnds ==
    /\ \A id \in SessionIds :
          [](sessions[id].status = "indexing"
                => <>(sessions[id].status \in {"ready", "error"}))
    /\ [][\A id \in SessionIds :
             (ProcFile(id) \/ ProcChunk(id))
                => sessions'[id].status = "indexing"]_vars

\* C38's case: the run of a session is over and the session is ready,
\* although the add of its chunk failed and its collection is empty.
C38_Witness ==
    \E id \in SessionIds :
       /\ task[id].pc = "finished" /\ sessions[id].status = "ready"
       /\ collections[id].exists /\ Count(collections[id]) = 0

----------------------------------------------------------------------------
(* Claims about the conversation endpoints (SpecConvApi) *)

\* C24: every conversation endpoint (GET /conversation/{id}, GET
\* /conversation/{id}/history, GET /conversation/{id}/stats, DELETE
\* /conversation/{id}) answers 404 when the store it reads holds no
\* conversation of that id.
C24_UnknownConversationIs404 ==
    [][\A c \in ConvIds :
          ((\/ ApiGetConversation(c)
            \/ \E limit \in 0..MaxLimit : ApiGetConversationHistory(c, limit)
            \/ ApiGetConversationStats(c)
            \/ ApiClearConversation(c))
           /\ c \notin DOMAIN conversations)
          => api_ret'.code = 404]_vars

\* C27: the conversation id a successful POST /query has just returned is
\* resolvable through the conversation endpoints: GET /conversation/{id}/stats
\* and GET /conversation/{id}/history for it answer 200 with the conversation
\* the query path wrote, which holds the question and the answer.
C27_ReturnedIdResolves ==
    [][\A c \in ConvIds :
          (/\ api_ret.op = "query" /\ api_ret.code = 200
           /\ api_ret.conversation_id = c
           /\ (\/ ApiGetConversationStats(c)
               \/ ApiGetConversationHistory(c, MaxLimit)))
          => /\ api_ret'.code = 200
             /\ conv_ret'.ok
             /\ conv_ret'.op = "stats" =>
                   conv_ret'.stats.total_messages =
                      Len(rag_conversations[c].messages)
             /\ conv_ret'.op = "history" =>
                   conv_ret'.history =
                      get_conversation_history(rag_conversations, c, MaxLimit)
        ]_vars

----------------------------------------------------------------------------
(* Claims about the validators (SpecValid) *)

\* C25: validate_github_url normalises an accepted repository URL to its
\* https form: 'github.com/user/repo' and 'http://github.com/user/repo' are
\* both accepted, and both return 'https://github.com/user/repo'.
C25_NormalisedToHttps ==
    (/\ validated.fn = "validate_github_url"
     /\ validated.input \in
           {<<"g", "i", "t", "h", "u", "b", ".", "c", "o", "m", "/", "u",
              "s", "e", "r", "/", "r", "e", "p", "o">>,
            <<"h", "t", "t", "p", ":", "/", "/", "g", "i", "t", "h", "u",
              "b", ".", "c", "o", "m", "/", "u", "s", "e", "r", "/", "r",
              "e", "p", "o">>})
    => /\ ~validated.raised
       /\ validated.value =
            <<"h", "t", "t", "p", "s", ":", "/", "/", "g", "i", "t", "h",
              "u", "b", ".", "c", "o", "m", "/", "u", "s", "e", "r", "/",
              "r", "e", "p", "o">>

\* C26: validate_question raises ValidationError for every question that is
\* empty or consists only of whitespace; a question it returns is the
\* stripped question, of at most 1000 characters and matching no malicious
\* pattern.
C26_BlankQuestionRejected ==
    validated.fn = "validate_question" =>
       /\ Strip(validated.input) = <<>> => validated.raised
       /\ ~validated.raised =>
             /\ validated.value = Strip(validated.input)
             /\ Len(validated.value) <= MAX_QUESTION_LENGTH
             /\ ~contains_malicious_content(validated.value)

----------------------------------------------------------------------------
(* Claims about SemanticChunker (SpecChunk) *)

\* The block end as the documentation describes it: a string runs from a
\* quote character to the next unescaped occurrence of the same character,
\* only braces outside strings count, and the block ends on the line where
\* the count of open braces returns to zero (the last line if it never does).
RECURSIVE MatchingBraceLine(_, _, _, _, _, _)
MatchingBraceLine(lines, i, j, depth, quote, escaped) ==
    IF i >= Len(lines) THEN Len(lines)
    ELSE IF j > Len(lines[i + 1])
    THEN MatchingBraceLine(lines, i + 1, 1, depth, quote, escaped)
    ELSE
      LET char == lines[i + 1][j]
      IN  IF escaped
          THEN MatchingBraceLine(lines, i, j + 1, depth, quote, FALSE)
          ELSE IF char = "\\"
          THEN MatchingBraceLine(lines, i, j + 1, depth, quote, TRUE)
          ELSE IF quote # "none"
          THEN MatchingBraceLine(lines, i, j + 1, depth,
                                 IF char = quote THEN "none" ELSE quote, FALSE)
          ELSE IF char \in {"\"", "'"}
          THEN MatchingBraceLine(lines, i, j + 1, depth, char, FALSE)
          ELSE IF char = "{"
          THEN MatchingBraceLine(lines, i, j + 1, depth + 1, quote, FALSE)
          ELSE IF char = "}"
          THEN IF depth - 1 = 0 THEN i + 1
               ELSE MatchingBraceLine(lines, i, j + 1, depth - 1, quote, FALSE)
          ELSE MatchingBraceLine(lines, i, j + 1, depth, quote, FALSE)

\* A block starts on the line: its first brace outside a string is a "{"
RECURSIVE BlockStartsOn(_, _, _, _)
BlockStartsOn(line, j, quote, escaped) ==
    IF j > Len(line) THEN FALSE
    ELSE IF escaped THEN BlockStartsOn(line, j + 1, quote, FALSE)
    ELSE IF line[j] = "\\" THEN BlockStartsOn(line, j + 1, quote, TRUE)
    ELSE IF quote # "none"
    THEN BlockStartsOn(line, j + 1,
                       IF line[j] = quote THEN "none" ELSE quote, FALSE)
    ELSE IF line[j] \in {"\"", "'"} THEN BlockStartsOn(line, j + 1, line[j], FALSE)
    ELSE IF line[j] = "{" THEN TRUE
    ELSE IF line[j] = "}" THEN FALSE
    ELSE BlockStartsOn(line, j + 1, quote, FALSE)

\* C8: for a block starting on the given line, _find_block_end returns the
\* line on which the block's unquoted "{" is closed by its matching "}":
\* brackets inside a quoted string do not count, and no earlier return of the
\* counter to zero ends the block.
C8_BlockEndIsMatchingBrace ==
    LET lines == SplitLines(doc.content)
    IN  (/\ called = "_find_block_end"
         /\ BlockStartsOn(lines[block.start_line + 1], 1, "none", FALSE))
        => block.end_line =
              MatchingBraceLine(lines, block.start_line, 1, 0, "none", FALSE)

\* C9: _fallback_chunking of a file of N lines, none of them blank, returns
\* chunks whose line ranges partition 1..N: the first starts at 1, each next
\* one starts where the previous ended plus one, the last ends at N, and
\* every chunk is W = max(10, N // 2) lines long except a possibly shorter
\* last one.
C9_FallbackPartitions ==
    LET lines == SplitLines(doc.content)
        N == Len(lines)
        W == Max(10, N \div 2)
        size(k) == chunks[k].end_line - chunks[k].start_line + 1
    IN  (/\ called = "_fallback_chunking"
         /\ \A i \in 1..N : Strip(lines[i]) # <<>>)
        => /\ (N = 0) = (chunks = <<>>)
           /\ N > 0 =>
                /\ chunks[1].start_line = 1
                /\ chunks[Len(chunks)].end_line = N
                /\ \A k \in 1..(Len(chunks) - 1) :
                      /\ chunks[k + 1].start_line = chunks[k].end_line + 1
                      /\ size(k) = W
                /\ \A k \in 1..Len(chunks) : 1 <= size(k) /\ size(k) <= W

\* C9's case: a file of 21 lines of text was chunked into three windows, the
\* last of them shorter than the others.
C9_Witness ==
    LET lines == SplitLines(doc.content)
    IN  /\ called = "_fallback_chunking"
        /\ Len(lines) = 21
        /\ \A i \in 1..21 : Strip(lines[i]) # <<>>
        /\ Len(chunks) = 3
        /\ chunks[3].start_line = 21

\* C10: the chunks chunk_document returns are in strictly increasing order of
\* start_line: a chunk with a smaller chunk_id starts on an earlier line.
C10_ChunksOrderedByStartLine ==
    called = "chunk_document"
    => \A i, j \in 1..Len(chunks) :
          chunks[i].chunk_id < chunks[j].chunk_id
            => chunks[i].start_line < chunks[j].start_line

\* The calls in which chunk_document has nothing semantic to return: no
\* supported language for the extension, ast.parse raised, or the language's
\* extractor found no chunk
DegradedCase ==
    LET lang == get_language_from_extension(doc.file_type)
        lines == SplitLines(doc.content)
        none(patterns) == ScanFrom(lines, patterns, lang, 0, 1) = <<>>
    IN  CASE lang = "none" -> TRUE
          [] lang = "python" ->
               \/ ~doc.parses
               \/ PythonFrom(lines, doc.tree, Walk(doc.tree, <<1>>), 1) = <<>>
          [] lang = "javascript" -> none(javascript_patterns)
          [] lang = "typescript" -> none(typescript_patterns)
          [] lang = "java" -> none(java_patterns)
          [] lang = "cpp" -> none(cpp_patterns)

\* C17 as stated: when the extension maps to no supported language, when
\* Python parsing raises, or when a scanner recognises no construct,
\* chunk_document returns exactly the fallback chunking of the whole content
\* (numbered and sized like every result) and no returned chunk is semantic.
C17_DegradesToFallback ==
    (called = "chunk_document" /\ DegradedCase)
    => /\ chunks = AddMetadata(fallback_chunking(doc.content))
       /\ \A k \in 1..Len(chunks) : ~chunks[k].is_semantic

\* C17 amended: the same for content whose stripped length is at least 10;
\* shorter content yields no chunk at all, where fallback chunking would
\* yield one.
C17_DegradesToFallbackAboveMinimum ==
    (called = "chunk_document" /\ DegradedCase
     /\ Len(Strip(doc.content)) >= 10)
    => /\ chunks = AddMetadata(fallback_chunking(doc.content))
       /\ \A k \in 1..Len(chunks) : ~chunks[k].is_semantic

\* chunk_document was called on a Python file that does not parse and
\* returned the fallback chunks of its content
C17_Witness ==
    /\ called = "chunk_document"
    /\ get_language_from_extension(doc.file_type) = "python"
    /\ ~doc.parses
    /\ Len(Strip(doc.content)) >= 10
    /\ Len(chunks) >= 1
    /\ chunks[1].type = "text_section"

\* C18: chunk_document returns zero chunks if and only if the content is
\* empty or its stripped length is below 10; every other content gives at
\* least one chunk, in every language branch.
C18_NoChunkIffBelowMinimum ==
    called = "chunk_document"
    => ((chunks = <<>>)
          <=> (Len(doc.content) = 0 \/ Len(Strip(doc.content)) < 10))

\* A Java file of at least 10 characters in which the scanner found nothing
\* was chunked, and chunks came back
C18_Witness ==
    /\ called = "chunk_document"
    /\ get_language_from_extension(doc.file_type) = "java"
    /\ DegradedCase
    /\ Len(Strip(doc.content)) >= 10
    /\ Len(chunks) >= 1

\* C19: every chunk chunk_document returns has
\* 1 <= start_line <= end_line <= number of lines of the file.
C19_LinesWithinFile ==
    called = "chunk_document"
    => \A k \in 1..Len(chunks) :
          /\ 1 <= chunks[k].start_line
          /\ chunks[k].start_line <= chunks[k].end_line
          /\ chunks[k].end_line <= Len(SplitLines(doc.content))

\* A semantic chunk that ends on the last line of its file, after another
\* chunk of the same file
C19_Witness ==
    /\ called = "chunk_document"
    /\ Len(chunks) >= 2
    /\ chunks[2].is_semantic
    /\ chunks[2].start_line > 1
    /\ chunks[2].end_line = Len(SplitLines(doc.content))

\* The signature line holds a balanced pair of parentheses before the brace
\* that opens the body: a "(", later a ")", later the line's first "{"
ParenthesesBeforeBrace(line) ==
    \E a, b, c \in 1..Len(line) :
       /\ a < b /\ b < c
       /\ line[a] = "(" /\ line[b] = ")" /\ line[c] = "{"
       /\ \A i \in 1..(c - 1) : line[i] \notin {"{", "}", "\"", "'"}
       /\ \A i \in 1..(a - 1) : line[i] \notin {"(", ")"}
       /\ \A i \in (a + 1)..(b - 1) : line[i] \notin {"(", ")"}

\* C29: a JavaScript/TypeScript/Java/C++ construct whose signature line has a
\* balanced pair of parentheses before the opening brace of its body, the
\* body being closed by a "}" on a later line, gives a semantic chunk that
\* extends through the line of that closing brace; the chunk does not end on
\* the signature line.
C29_ChunkRunsToClosingBrace ==
    LET lines == SplitLines(doc.content)
    IN  (called = "chunk_document" /\ doc.file_type \in ScanTypes) =>
          \A i \in 1..Len(chunks) :
             LET closing == MatchingBraceLine(lines, chunks[i].start_line - 1,
                                              1, 0, "none", FALSE)
             IN  (/\ chunks[i].is_semantic
                  /\ ParenthesesBeforeBrace(lines[chunks[i].start_line])
                  /\ closing > chunks[i].start_line
                  /\ \E j \in 1..Len(lines[closing]) : lines[closing][j] = "}")
                 => chunks[i].end_line = closing

----------------------------------------------------------------------------
(* Claims about the files of an indexing run (SpecWalk) *)

\* C30: the indexing run started by process_repository indexes only files
\* supplied by the source collaborator: every file whose chunks are added to
\* the session's collection is in the list RepoProcessor.get_files returned,
\* so it passed the extension, size and ignored-directory filters.
C30_IndexedFilesWereListed ==
    \A f \in repo_run.indexed : f \in repo_run.files

----------------------------------------------------------------------------
(* Claims about the gathers of an indexing run (SpecGather) *)

\* C33: during an indexing run there are never more than
\* MAX_FILE_CONCURRENCY (10) process_file calls in flight and never more
\* than MAX_CHUNK_CONCURRENCY (10) add_to_index calls in flight, however
\* many files or chunks there are.
C33_CallsInFlightBounded ==
    /\ gather.phase = "files" => gather.calling <= MAX_FILE_CONCURRENCY
    /\ gather.phase = "chunks" => gather.calling <= MAX_CHUNK_CONCURRENCY

\* C33's case: a run of more than ten chunks has ten add_to_index calls in
\* flight and a task waiting for the semaphore.
C33_Witness ==
    /\ gather.phase = "chunks"
    /\ gather.total_chunks > MAX_CHUNK_CONCURRENCY
    /\ gather.calling = MAX_CHUNK_CONCURRENCY
    /\ gather.waiting > 0

\* C34: the counters of a run never decrease and lose no increment: in every
\* step file_counter and chunk_counter are at least what they were; once
\* every file task has finished file_counter is the number of files, and
\* once every chunk task has finished chunk_counter is the number of chunks.
C34_CountersLoseNothing ==
    [][/\ gather'.file_counter >= gather.file_counter
       /\ gather'.chunk_counter >= gather.chunk_counter
       /\ (gather'.phase = "files" /\ gather'.done = gather'.total_files)
             => gather'.file_counter = gather'.total_files
       /\ gather'.phase \in {"chunks", "done"}
             => gather'.file_counter = gather'.total_files
       /\ (gather'.phase = "chunks" /\ gather'.done = gather'.total_chunks)
             => gather'.chunk_counter = gather'.total_chunks
       /\ gather'.phase = "done"
             => gather'.chunk_counter = gather'.total_chunks]_vars

\* C34's case: a run of more files and more chunks than the semaphores
\* admit at once is over, and both counters are at their totals.
C34_Witness ==
    /\ gather.phase = "done"
    /\ gather.total_files > MAX_FILE_CONCURRENCY
    /\ gather.file_counter = gather.total_files
    /\ gather.total_chunks > MAX_CHUNK_CONCURRENCY
    /\ gather.chunk_counter = gather.total_chunks

----------------------------------------------------------------------------
(* Claims about the rate limiter (SpecLimiter) *)

\* C39: a request that RateLimiter.is_allowed rejects consumes no quota: the
\* per-IP, per-session and per-query windows hold the same recorded requests
\* and the bucket the same tokens as before the call.
C39_RejectedConsumesNothing ==
    [][\A is_query \in BOOLEAN :
          (IsAllowed(is_query) /\ limiter'.ret # "allowed")
          => /\ limiter'.ip = limiter.ip
             /\ limiter'.session = limiter.session
             /\ limiter'.query = limiter.query
             /\ limiter'.tokens = limiter.tokens]_vars

============================================================================
